---- MODULE Spec2Model ----
(***************************************************************************)
(* TrackAST call-graph pipeline: identity, abstract AST, graph store,      *)
(* builder, traversal and query, modelled from trackast-lib and the Rust   *)
(* translator of trackast.                                                 *)
(*                                                                         *)
(* Strings are TLC strings; format!() is concatenation (\o) and the        *)
(* str predicates (starts_with, contains) are computed on SubSeq.          *)
(* HashMap<K, V> is a function whose DOMAIN is the key set, HashSet a set, *)
(* Vec a sequence, Option<T> a record with the flag is_some, Result a      *)
(* record with the flag ok.                                                *)
(***************************************************************************)
EXTENDS Integers, Sequences, FiniteSets, TLC

VARIABLES translated, asts, functions_map, last, built, graph, result

vars == <<translated, asts, functions_map, last, built, graph, result>>

-----------------------------------------------------------------------------
(* Bounds of the model *)

MaxAsts == 2
MaxFuncs == 2
MaxCalls == 1
MaxEdges == 3
MaxStmts == 3
MaxEntries == 2

-----------------------------------------------------------------------------
(* Option<String> *)

None == [is_some |-> FALSE]

Some(v) == [is_some |-> TRUE, value |-> v]

(* str::starts_with *)
starts_with(s, p) == Len(s) >= Len(p) /\ SubSeq(s, 1, Len(p)) = p

(* str::contains *)
contains(s, p) == \E i \in 1..(Len(s) - Len(p) + 1) : SubSeq(s, i, i + Len(p) - 1) = p

(* the empty HashMap *)
EmptyMap == [k \in {} |-> TRUE]

(* HashMap::insert of a key that is absent or present *)
MapInsert(m, k, v) == [x \in (DOMAIN m) \cup {k} |-> IF x = k THEN v ELSE m[x]]

-----------------------------------------------------------------------------
(* ast/types.rs *)

Signature_new(params, return_type) == [params |-> params, return_type |-> return_type]

Signature_empty == [params |-> <<>>, return_type |-> "()"]

RECURSIVE join_params(_)
(* params.iter().map(|(name, ty)| format!("{name}: {ty}")).join(", ") *)
join_params(params) ==
    IF params = <<>> THEN ""
    ELSE IF Len(params) = 1 THEN params[1][1] \o ": " \o params[1][2]
    ELSE params[1][1] \o ": " \o params[1][2] \o ", " \o join_params(Tail(params))

(* impl Display for Signature *)
Signature_to_string(sig) == "(" \o join_params(sig.params) \o ") -> " \o sig.return_type

FunctionCall_new(target_name, target_module, line) ==
    [target_name |-> target_name, target_module |-> target_module, line |-> line]

FunctionDef_new(name, signature, module) ==
    [name |-> name, signature |-> signature, calls |-> <<>>, module |-> module]

with_calls(func, calls) == [func EXCEPT !.calls = calls]

add_call(func, call) == [func EXCEPT !.calls = Append(@, call)]

AbstractAST_new(module_path) == [functions |-> <<>>, module_path |-> module_path]

add_function(ast, func) == [ast EXCEPT !.functions = Append(@, func)]

-----------------------------------------------------------------------------
(* function_id/mod.rs *)

generate_id(module, name, signature) ==
    module \o "::" \o name \o "::" \o Signature_to_string(signature)

fn_id(func) == generate_id(func.module, func.name, func.signature)

-----------------------------------------------------------------------------
(* graph/mod.rs *)

GraphNode_internal(id, metadata) == [id |-> id, is_external |-> FALSE, metadata |-> metadata]

GraphNode_external(id, metadata) == [id |-> id, is_external |-> TRUE, metadata |-> metadata]

GraphEdge_new(from, to, line) == [from |-> from, to |-> to, line |-> line]

CallGraph_new == [nodes |-> EmptyMap, edges |-> <<>>]

Ok(g) == [ok |-> TRUE, graph |-> g]

Err(g, msg) == [ok |-> FALSE, graph |-> g, err |-> msg]

(* insert_node as a plain HashMap insert, without the contains_key check *)
insert_node_overwrite(g, node) ==
    Ok([g EXCEPT !.nodes = MapInsert(g.nodes, node.id, node)])

insert_node(g, node) ==
    IF node.id \in DOMAIN g.nodes
    THEN Err(g, "Node already exists: " \o node.id)
    ELSE Ok([g EXCEPT !.nodes = MapInsert(g.nodes, node.id, node)])

(* insert_edge without the check of the to endpoint *)
insert_edge_unchecked_to(g, edge) ==
    IF edge.from \notin DOMAIN g.nodes
    THEN Err(g, "From node does not exist: " \o edge.from)
    ELSE Ok([g EXCEPT !.edges = Append(@, edge)])

insert_edge(g, edge) ==
    IF edge.from \notin DOMAIN g.nodes
    THEN Err(g, "From node does not exist: " \o edge.from)
    ELSE IF edge.to \notin DOMAIN g.nodes
    THEN Err(g, "To node does not exist: " \o edge.to)
    ELSE Ok([g EXCEPT !.edges = Append(@, edge)])

get_edges_from(g, id) == SelectSeq(g.edges, LAMBDA e : e.from = id)

get_edges_to(g, id) == SelectSeq(g.edges, LAMBDA e : e.to = id)

node_count(g) == Cardinality(DOMAIN g.nodes)

edge_count(g) == Len(g.edges)

-----------------------------------------------------------------------------
(* builder/mod.rs *)

CallGraphBuilder_new == [asts |-> <<>>, functions_map |-> EmptyMap]

RECURSIVE add_ast_loop(_, _)
(* the for loop of add_ast over ast.functions: the map after the loop, or    *)
(* the map as it stands when the duplicate is met and the function returns *)
add_ast_loop(fm, funcs) ==
    IF funcs = <<>> THEN [ok |-> TRUE, functions_map |-> fm]
    ELSE IF fn_id(Head(funcs)) \in DOMAIN fm
    THEN [ok |-> FALSE, functions_map |-> fm,
          err |-> "Duplicate function ID: " \o fn_id(Head(funcs))]
    ELSE add_ast_loop(MapInsert(fm, fn_id(Head(funcs)), Head(funcs)), Tail(funcs))

(* add_ast that overwrites the entry of an id it already holds *)
add_ast_overwrite(b, ast) ==
    [ok |-> TRUE,
     builder |-> [asts |-> Append(b.asts, ast),
                  functions_map |->
                     [id \in DOMAIN b.functions_map
                               \cup {fn_id(ast.functions[i]) : i \in 1..Len(ast.functions)} |->
                        IF \E i \in 1..Len(ast.functions) : fn_id(ast.functions[i]) = id
                        THEN ast.functions[CHOOSE i \in 1..Len(ast.functions) :
                                               fn_id(ast.functions[i]) = id]
                        ELSE b.functions_map[id]]]]

(* CallGraphBuilder::add_ast on the builder b *)
add_ast(b, ast) ==
    LET r == add_ast_loop(b.functions_map, ast.functions) IN
    IF r.ok
    THEN [ok |-> TRUE,
          builder |-> [asts |-> Append(b.asts, ast), functions_map |-> r.functions_map]]
    ELSE [ok |-> FALSE, err |-> r.err,
          builder |-> [asts |-> b.asts, functions_map |-> r.functions_map]]

RECURSIVE build_nodes(_, _, _)
(* first loop of build: one internal node per entry of functions_map, in   *)
(* the map's iteration order *)
build_nodes(g, fm, order) ==
    IF order = <<>> THEN Ok(g)
    ELSE LET r == insert_node(g, GraphNode_internal(Head(order), fm[Head(order)])) IN
         IF r.ok THEN build_nodes(r.graph, fm, Tail(order)) ELSE r

(* id of the external node of a call without target module *)
external_id(call) == "<external>" \o "::" \o call.target_name \o "::" \o "()"

(* metadata of a synthesized external node *)
external_func(call) == FunctionDef_new(call.target_name, Signature_empty, "<external>")

(* resolve_target with the synthesized node taken for an internal one *)
resolve_target_internal(g, call) ==
    IF call.target_module.is_some
    THEN [ok |-> TRUE, graph |-> g,
          to_id |-> generate_id(call.target_module.value, call.target_name, Signature_empty)]
    ELSE IF external_id(call) \notin DOMAIN g.nodes
    THEN LET r == insert_node(g, GraphNode_internal(external_id(call), external_func(call))) IN
         IF r.ok THEN [ok |-> TRUE, graph |-> r.graph, to_id |-> external_id(call)] ELSE r
    ELSE [ok |-> TRUE, graph |-> g, to_id |-> external_id(call)]

(* the if/else that yields to_id, with the graph after it *)
resolve_target(g, call) ==
    IF call.target_module.is_some
    THEN [ok |-> TRUE, graph |-> g,
          to_id |-> generate_id(call.target_module.value, call.target_name, Signature_empty)]
    ELSE IF external_id(call) \notin DOMAIN g.nodes
    THEN LET r == insert_node(g, GraphNode_external(external_id(call), external_func(call))) IN
         IF r.ok THEN [ok |-> TRUE, graph |-> r.graph, to_id |-> external_id(call)] ELSE r
    ELSE [ok |-> TRUE, graph |-> g, to_id |-> external_id(call)]

(* "Check if target exists, if not add it as external" *)
ensure_target(g, call, to_id) ==
    IF to_id \notin DOMAIN g.nodes /\ ~starts_with(to_id, "<external>")
    THEN insert_node(g, GraphNode_external(to_id, external_func(call)))
    ELSE Ok(g)

(* body of the inner loop of build for one call of the function from_id *)
build_call(g, from_id, call) ==
    LET t == resolve_target(g, call) IN
    IF ~t.ok THEN t
    ELSE LET n == ensure_target(t.graph, call, t.to_id) IN
         IF ~n.ok THEN n
         ELSE insert_edge(n.graph, GraphEdge_new(from_id, t.to_id, call.line))

RECURSIVE build_calls(_, _, _)
(* inner loop of build: for call in &func_def.calls *)
build_calls(g, from_id, calls) ==
    IF calls = <<>> THEN Ok(g)
    ELSE LET r == build_call(g, from_id, Head(calls)) IN
         IF r.ok THEN build_calls(r.graph, from_id, Tail(calls)) ELSE r

RECURSIVE build_edges(_, _, _)
(* second loop of build: for func_def in self.functions_map.values() *)
build_edges(g, fm, order) ==
    IF order = <<>> THEN Ok(g)
    ELSE LET r == build_calls(g, fn_id(fm[Head(order)]), fm[Head(order)].calls) IN
         IF r.ok THEN build_edges(r.graph, fm, Tail(order)) ELSE r

(* CallGraphBuilder::build; order is the iteration order of functions_map, *)
(* which the HashMap leaves unspecified *)
build(fm, order) ==
    LET n == build_nodes(CallGraph_new, fm, order) IN
    IF ~n.ok THEN [ok |-> FALSE, err |-> n.err]
    ELSE LET e == build_edges(n.graph, fm, order) IN
         IF ~e.ok THEN [ok |-> FALSE, err |-> e.err]
         ELSE [ok |-> TRUE, graph |-> e.graph]

(* the orders in which a HashMap with key set S can be iterated *)
IterationOrders(S) ==
    {o \in [1..Cardinality(S) -> S] : \A i, j \in 1..Cardinality(S) : i # j => o[i] # o[j]}

-----------------------------------------------------------------------------
(* traversal/mod.rs *)

TraversalResult_new == [reachable |-> {}, visited_order |-> <<>>]

add_node(res, id) ==
    IF id \notin res.reachable
    THEN [reachable |-> res.reachable \cup {id}, visited_order |-> Append(res.visited_order, id)]
    ELSE res

(* the targets the for loop over get_edges_from(current) pushes *)
(* unvisited_callees in the reverse of the edge order *)
unvisited_callees_reversed(g, current, visited) ==
    LET es == SelectSeq(get_edges_from(g, current), LAMBDA e : e.to \notin visited) IN
    [i \in 1..Len(es) |-> es[Len(es) + 1 - i].to]

unvisited_callees(g, current, visited) ==
    LET es == SelectSeq(get_edges_from(g, current), LAMBDA e : e.to \notin visited) IN
    [i \in 1..Len(es) |-> es[i].to]

(* the loop state of a traversal: work is the stack or the queue *)
loop_state(start) ==
    [work |-> <<start>>, visited |-> {}, res |-> TraversalResult_new]

(* one iteration of the while loop: current was taken from work, rest is   *)
(* what work still holds *)
loop_body(g, current, rest, st) ==
    IF current \in st.visited THEN [st EXCEPT !.work = rest]
    ELSE [work |-> rest \o unvisited_callees(g, current, st.visited \cup {current}),
          visited |-> st.visited \cup {current},
          res |-> add_node(st.res, current)]

(* an iteration of dfs_traversal that reads the top of the stack and       *)
(* leaves it there when the id is already visited *)
dfs_step_peek(g, st) ==
    LET current == st.work[Len(st.work)] IN
    IF current \in st.visited THEN st
    ELSE loop_body(g, current, SubSeq(st.work, 1, Len(st.work) - 1), st)

(* while let Some(current) = stack.pop() *)
dfs_step(g, st) ==
    loop_body(g, st.work[Len(st.work)], SubSeq(st.work, 1, Len(st.work) - 1), st)

(* while let Some(current) = queue.pop_front() *)
bfs_step(g, st) == loop_body(g, Head(st.work), Tail(st.work), st)

RECURSIVE dfs_loop(_, _, _, _)
(* while let Some(current) = stack.pop() *)
dfs_loop(g, stack, visited, res) ==
    IF stack = <<>> THEN res
    ELSE LET current == stack[Len(stack)]
             rest == SubSeq(stack, 1, Len(stack) - 1) IN
         IF current \in visited THEN dfs_loop(g, rest, visited, res)
         ELSE dfs_loop(g, rest \o unvisited_callees(g, current, visited \cup {current}),
                       visited \cup {current}, add_node(res, current))

RECURSIVE dfs_loop_mark_on_push(_, _, _, _)
(* dfs_loop with the callees marked visited when they are pushed *)
dfs_loop_mark_on_push(g, stack, visited, res) ==
    IF stack = <<>> THEN res
    ELSE LET current == stack[Len(stack)]
             rest == SubSeq(stack, 1, Len(stack) - 1) IN
         IF current \in visited THEN dfs_loop_mark_on_push(g, rest, visited, res)
         ELSE LET pushed == unvisited_callees(g, current, visited \cup {current}) IN
              dfs_loop_mark_on_push(g, rest \o pushed,
                  visited \cup {current} \cup {pushed[i] : i \in 1..Len(pushed)},
                  add_node(res, current))

dfs_traversal_mark_on_push(g, start) ==
    dfs_loop_mark_on_push(g, <<start>>, {}, TraversalResult_new)

dfs_traversal(g, start) == dfs_loop(g, <<start>>, {}, TraversalResult_new)

RECURSIVE bfs_loop(_, _, _, _)
(* while let Some(current) = queue.pop_front() *)
bfs_loop(g, queue, visited, res) ==
    IF queue = <<>> THEN res
    ELSE LET current == Head(queue) IN
         IF current \in visited THEN bfs_loop(g, Tail(queue), visited, res)
         ELSE bfs_loop(g, Tail(queue) \o unvisited_callees(g, current, visited \cup {current}),
                       visited \cup {current}, add_node(res, current))

RECURSIVE bfs_loop_break(_, _, _, _)
(* bfs_loop that leaves the loop at the first already visited id *)
bfs_loop_break(g, queue, visited, res) ==
    IF queue = <<>> THEN res
    ELSE LET current == Head(queue) IN
         IF current \in visited THEN res
         ELSE bfs_loop_break(g, Tail(queue) \o unvisited_callees(g, current, visited \cup {current}),
                             visited \cup {current}, add_node(res, current))

bfs_traversal_break(g, start) == bfs_loop_break(g, <<start>>, {}, TraversalResult_new)

bfs_traversal(g, start) == bfs_loop(g, <<start>>, {}, TraversalResult_new)

-----------------------------------------------------------------------------
(* query/mod.rs *)

reachable_from(g, id) ==
    IF id \notin DOMAIN g.nodes
    THEN [ok |-> FALSE, err |-> "Function not found: " \o id]
    ELSE [ok |-> TRUE, reachable |-> dfs_traversal(g, id).reachable]

(* direct_callees without the HashSet: one entry per edge *)
direct_callees_per_edge(g, id) ==
    LET es == get_edges_from(g, id) IN
    {[i \in 1..Len(es) |-> es[i].to]}

(* GraphQuery::direct_callees: the targets of the edges leaving id are     *)
(* collected into a HashSet and the Vec is filled by iterating it, in any  *)
(* order: the Vecs the call can return *)
direct_callees(g, id) ==
    LET es == get_edges_from(g, id) IN
    IterationOrders({es[i].to : i \in 1..Len(es)})

(* merge that pushes every id of other *)
merge_append(res, visited_order) ==
    [reachable |-> res.reachable \cup {visited_order[i] : i \in 1..Len(visited_order)},
     visited_order |-> res.visited_order \o visited_order]

RECURSIVE merge(_, _)
(* TraversalResult::merge: the ids of other.visited_order that are new *)
merge(res, visited_order) ==
    IF visited_order = <<>> THEN res
    ELSE merge(add_node(res, Head(visited_order)), Tail(visited_order))

RECURSIVE traversal_from_entries_loop(_, _, _)
(* the for loop of traversal_from_entries *)
traversal_from_entries_loop(g, entries, res) ==
    IF entries = <<>> THEN res
    ELSE traversal_from_entries_loop(g, Tail(entries),
             merge(res, dfs_traversal(g, Head(entries)).visited_order))

traversal_from_entries(g, entries) ==
    traversal_from_entries_loop(g, entries, TraversalResult_new)

-----------------------------------------------------------------------------
(* builder/mod.rs: build_from_entries *)

RECURSIVE build_from_entries_loop(_, _, _)
(* for entry in entries *)
build_from_entries_loop(g, entries, res) ==
    IF entries = <<>> THEN [ok |-> TRUE, graph |-> g, result |-> res]
    ELSE IF Head(entries) \notin DOMAIN g.nodes
    THEN [ok |-> FALSE, err |-> "Entry point not found: " \o Head(entries)]
    ELSE build_from_entries_loop(g, Tail(entries),
                                 merge(res, dfs_traversal(g, Head(entries)).visited_order))

RECURSIVE build_from_entries_loop_skip(_, _, _)
(* the loop as in traversal_from_entries: no look into graph.nodes *)
build_from_entries_loop_skip(g, entries, res) ==
    IF entries = <<>> THEN [ok |-> TRUE, graph |-> g, result |-> res]
    ELSE build_from_entries_loop_skip(g, Tail(entries),
                                      merge(res, dfs_traversal(g, Head(entries)).visited_order))

(* build_from_entries that checks the first entry only *)
build_from_entries_first_checked(fm, order, entries) ==
    LET b == build(fm, order) IN
    IF ~b.ok THEN [ok |-> FALSE, err |-> b.err]
    ELSE IF entries # <<>> /\ Head(entries) \notin DOMAIN b.graph.nodes
    THEN [ok |-> FALSE, err |-> "Entry point not found: " \o Head(entries)]
    ELSE build_from_entries_loop_skip(b.graph, entries, TraversalResult_new)

(* CallGraphBuilder::build_from_entries, functions_map iterated in order *)
build_from_entries(fm, order, entries) ==
    LET b == build(fm, order) IN
    IF ~b.ok THEN [ok |-> FALSE, err |-> b.err]
    ELSE build_from_entries_loop(b.graph, entries, TraversalResult_new)

-----------------------------------------------------------------------------
(* cycles/mod.rs *)

Cycle_new(nodes) == [nodes |-> nodes]

(* Ord of FunctionId (String) on the ids of the cycle tests: their place   *)
(* in the lexicographic order *)
id_rank(id) ==
    IF id = "a::()" THEN 1 ELSE IF id = "b::()" THEN 2 ELSE IF id = "c::()" THEN 3 ELSE 4

RECURSIVE vec_less(_, _)
(* Ord of Vec<FunctionId>: lexicographic, a proper prefix is smaller *)
vec_less(p, q) ==
    IF q = <<>> THEN FALSE
    ELSE IF p = <<>> THEN TRUE
    ELSE IF id_rank(Head(p)) # id_rank(Head(q)) THEN id_rank(Head(p)) < id_rank(Head(q))
    ELSE vec_less(Tail(p), Tail(q))

(* self_cycles that takes every edge leaving start_node for a self loop *)
self_cycles_any_edge(es, start_node) ==
    [i \in 1..Len(es) |-> Cycle_new(<<start_node>>)]

RECURSIVE self_cycles(_, _)
(* "Check for self-cycles": one entry per edge start_node -> start_node *)
self_cycles(es, start_node) ==
    IF es = <<>> THEN <<>>
    ELSE (IF Head(es).to = start_node THEN <<Cycle_new(<<start_node>>)>> ELSE <<>>)
            \o self_cycles(Tail(es), start_node)

RECURSIVE find_cycles_edges(_, _, _, _, _)
(* the for loop over the edges of current; st holds queue, visited, cycles *)
find_cycles_edges(g, start_node, path, es, st) ==
    IF es = <<>> THEN st
    ELSE LET edge == Head(es) IN
         find_cycles_edges(g, start_node, path, Tail(es),
             IF edge.to = start_node /\ Len(path) > 1
             THEN [st EXCEPT !.cycles = Append(@, Cycle_new(path))]
             ELSE IF edge.to \notin st.visited /\ Len(path) < node_count(g)
             THEN [st EXCEPT !.visited = @ \cup {edge.to},
                             !.queue = Append(@, <<edge.to, Append(path, edge.to)>>)]
             ELSE st)

RECURSIVE find_cycles_bfs(_, _, _)
(* while let Some((current, path)) = queue.pop_front() *)
find_cycles_bfs(g, start_node, st) ==
    IF st.queue = <<>> THEN st.cycles
    ELSE LET current == Head(st.queue)[1]
             path == Head(st.queue)[2] IN
         find_cycles_bfs(g, start_node,
             find_cycles_edges(g, start_node, path, get_edges_from(g, current),
                               [st EXCEPT !.queue = Tail(@)]))

(* the loop body without the search for paths back to the start *)
find_cycles_start_self_only(g, start_node) ==
    self_cycles(get_edges_from(g, start_node), start_node)

(* the body of the loop over the start nodes: the cycles it pushes *)
find_cycles_start(g, start_node) ==
    self_cycles(get_edges_from(g, start_node), start_node)
        \o find_cycles_bfs(g, start_node,
               [queue |-> << <<start_node, <<start_node>> >> >>,
                visited |-> {start_node},
                cycles |-> <<>>])

RECURSIVE find_cycles_loop(_, _, _, _)
(* for start_node in graph.nodes.keys(), keys in the order given *)
find_cycles_loop(g, keys, visited_global, cycles) ==
    IF keys = <<>> THEN cycles
    ELSE IF Head(keys) \in visited_global
    THEN find_cycles_loop(g, Tail(keys), visited_global, cycles)
    ELSE find_cycles_loop(g, Tail(keys), visited_global \cup {Head(keys)},
                          cycles \o find_cycles_start(g, Head(keys)))

RECURSIVE sort_insert(_, _)
(* place of c in a sorted list, after the entries that are not greater *)
sort_insert(sorted, c) ==
    IF sorted = <<>> THEN <<c>>
    ELSE IF vec_less(c.nodes, Head(sorted).nodes) THEN <<c>> \o sorted
    ELSE <<Head(sorted)>> \o sort_insert(Tail(sorted), c)

RECURSIVE sort_by_key(_, _)
(* cycles.sort_by_key(|c| c.nodes.clone()): a stable sort *)
sort_by_key(cycles, sorted) ==
    IF cycles = <<>> THEN sorted
    ELSE sort_by_key(Tail(cycles), sort_insert(sorted, Head(cycles)))

RECURSIVE dedup(_)
(* cycles.dedup(): consecutive equal entries become one *)
dedup(cycles) ==
    IF Len(cycles) <= 1 THEN cycles
    ELSE IF cycles[1] = cycles[2] THEN dedup(Tail(cycles))
    ELSE <<Head(cycles)>> \o dedup(Tail(cycles))

(* find_cycles with graph.nodes.keys() iterating in the order keys *)
find_cycles(g, keys) ==
    dedup(sort_by_key(find_cycles_loop(g, keys, {}, <<>>), <<>>))

has_cycles(g, keys) == find_cycles(g, keys) # <<>>

-----------------------------------------------------------------------------
(* translators/rust.rs.  A syntax node is a record [kind, text, children]: *)
(* kind is node.kind(), children the sequence node.children(), and text    *)
(* the source of a leaf; node_text is source[start_byte..end_byte] without *)
(* the white space between the leaves *)

Leaf(kind, text) == [kind |-> kind, text |-> text, children |-> <<>>]

Tree(kind, children) == [kind |-> kind, text |-> "", children |-> children]

RECURSIVE node_text(_)
RECURSIVE nodes_text(_)
node_text(node) ==
    IF node.children = <<>> THEN node.text ELSE nodes_text(node.children)

nodes_text(ns) == IF ns = <<>> THEN "" ELSE node_text(Head(ns)) \o nodes_text(Tail(ns))

(* text of the first child of one of the kinds, or "" *)
first_child_text(node, kinds) ==
    LET idx == {i \in 1..Len(node.children) : node.children[i].kind \in kinds} IN
    IF idx = {} THEN ""
    ELSE node_text(node.children[CHOOSE i \in idx : \A j \in idx : i <= j])

extract_identifier_or_field_access_with_context(node, impl_context) ==
    IF node.kind = "identifier" THEN Some(node_text(node))
    ELSE IF node.kind = "field_expression"
    THEN IF /\ Len(node.children) >= 1
            /\ node_text(node.children[1]) = "self"
            /\ impl_context # ""
            /\ Len(node.children) >= 3
            /\ node.children[3].kind = "field_identifier"
         THEN Some(impl_context \o "::" \o node_text(node.children[3]))
         ELSE IF /\ Len(node.children) >= 1
                 /\ node.children[Len(node.children)].kind = "field_identifier"
         THEN Some(node_text(node.children[Len(node.children)]))
         ELSE None
    ELSE None

extract_identifier_or_field_access(node) ==
    extract_identifier_or_field_access_with_context(node, "")

(* the web framework methods whose identifier arguments are recorded *)
RouteMethods == {"to", "service", "route", "middleware", "guard"}

(* texts of the identifier children of a sequence of nodes, in order *)
identifier_texts(ns) ==
    LET ids == SelectSeq(ns, LAMBDA n : n.kind = "identifier") IN
    [i \in 1..Len(ids) |-> node_text(ids[i])]

RECURSIVE arguments_identifiers(_)
(* for each child of kind arguments, its identifier children *)
arguments_identifiers(ns) ==
    IF ns = <<>> THEN <<>>
    ELSE (IF Head(ns).kind = "arguments" THEN identifier_texts(Head(ns).children) ELSE <<>>)
            \o arguments_identifiers(Tail(ns))

(* "Extract function references passed to method calls": the names pushed  *)
(* for the call_expression node *)
handler_references(node) ==
    IF /\ Len(node.children) >= 1
       /\ node.children[1].kind = "field_expression"
       /\ Len(node.children[1].children) >= 1
       /\ LET callee == node.children[1]
              field == callee.children[Len(callee.children)] IN
          field.kind = "field" /\ node_text(field) \in RouteMethods
    THEN arguments_identifiers(node.children)
    ELSE <<>>

(* the names one call_expression node pushes *)
call_expression_names(node, impl_context) ==
    (IF Len(node.children) >= 1
     THEN LET name == extract_identifier_or_field_access_with_context(
                          node.children[1], impl_context) IN
          IF name.is_some THEN <<name.value>> ELSE <<>>
     ELSE <<>>)
        \o handler_references(node)

RECURSIVE extract_calls_recursive_with_context(_, _)
RECURSIVE extract_calls_children_with_context(_, _)
(* the names pushed onto calls by the walk of node *)
extract_calls_recursive_with_context(node, impl_context) ==
    (IF node.kind = "call_expression" THEN call_expression_names(node, impl_context) ELSE <<>>)
        \o extract_calls_children_with_context(node.children, impl_context)

extract_calls_children_with_context(ns, impl_context) ==
    IF ns = <<>> THEN <<>>
    ELSE extract_calls_recursive_with_context(Head(ns), impl_context)
            \o extract_calls_children_with_context(Tail(ns), impl_context)

extract_calls_from_function_with_context(func_node, impl_context) ==
    extract_calls_children_with_context(func_node.children, impl_context)

RECURSIVE extract_calls_recursive(_)
RECURSIVE extract_calls_children(_)
(* the walk without impl context, used for expression statements *)
extract_calls_recursive(node) ==
    (IF node.kind = "call_expression" THEN call_expression_names(node, "") ELSE <<>>)
        \o extract_calls_children(node.children)

extract_calls_children(ns) ==
    IF ns = <<>> THEN <<>>
    ELSE extract_calls_recursive(Head(ns)) \o extract_calls_children(Tail(ns))

(* the FunctionCall made of an extracted name in a function of module *)
function_call_of(call_name, module) ==
    FunctionCall_new(call_name,
                     IF contains(call_name, "::") THEN Some(module) ELSE None, 0)

(* the function_item branch of extract_ast_recursive *)
extract_function_item(node, module, ast, impl_context) ==
    LET func_name == first_child_text(node, {"identifier"}) IN
    IF func_name = "" THEN ast
    ELSE LET calls == extract_calls_from_function_with_context(node, impl_context)
             scoped_name == IF impl_context = "" THEN func_name
                            ELSE impl_context \o "::" \o func_name IN
         add_function(ast,
             with_calls(FunctionDef_new(scoped_name, Signature_empty, module),
                        [i \in 1..Len(calls) |-> function_call_of(calls[i], module)]))

(* the expression_statement branch of extract_ast_recursive *)
extract_expression_statement(node, module, ast) ==
    LET calls == extract_calls_recursive(node)
        module_calls == [i \in 1..Len(calls) |-> FunctionCall_new(calls[i], None, 0)]
        existing == {i \in 1..Len(ast.functions) : ast.functions[i].name = "<module>"} IN
    IF calls = <<>> THEN ast
    ELSE IF existing # {}
    THEN LET i == CHOOSE k \in existing : \A j \in existing : k <= j IN
         [ast EXCEPT !.functions[i].calls = @ \o module_calls]
    ELSE add_function(ast,
             with_calls(FunctionDef_new("<module>", Signature_empty, module), module_calls))

RECURSIVE ast_walk(_, _)
RECURSIVE ast_walk_children(_, _)
(* the walk of extract_ast_recursive: the nodes it descends into, in the   *)
(* order it reaches them, each with the impl context it is reached with   *)
ast_walk(node, impl_context) ==
    IF node.kind = "impl_item"
    THEN ast_walk_children(node.children,
                           first_child_text(node, {"type_identifier", "identifier"}))
    ELSE (IF node.kind \in {"function_item", "expression_statement"}
          THEN <<[node |-> node, impl_context |-> impl_context]>> ELSE <<>>)
            \o ast_walk_children(node.children, impl_context)

ast_walk_children(ns, impl_context) ==
    IF ns = <<>> THEN <<>>
    ELSE ast_walk(Head(ns), impl_context) \o ast_walk_children(Tail(ns), impl_context)

(* what extract_ast_recursive does to the ast at one node of the walk *)
extract_ast_node(node, module, ast, impl_context) ==
    LET a1 == IF node.kind = "function_item"
              THEN extract_function_item(node, module, ast, impl_context)
              ELSE ast IN
    IF node.kind = "expression_statement" /\ impl_context = ""
    THEN extract_expression_statement(node, module, a1)
    ELSE a1

RECURSIVE extract_ast_steps(_, _, _)
extract_ast_steps(steps, module, ast) ==
    IF steps = <<>> THEN ast
    ELSE extract_ast_steps(Tail(steps), module,
             extract_ast_node(Head(steps).node, module, ast, Head(steps).impl_context))

extract_ast_recursive(node, module, ast, impl_context) ==
    extract_ast_steps(ast_walk(node, impl_context), module, ast)

(* RustTranslator::translate of a parsed source *)
translate(root, module_path) ==
    extract_ast_recursive(root, module_path, AbstractAST_new(module_path), "")

-----------------------------------------------------------------------------
(* translators/javascript.rs, on the same syntax nodes *)

(* the Express route methods whose identifier arguments are recorded *)
ExpressMethods == {"get", "post", "put", "delete", "patch", "use", "all"}

(* "Filter out common Express middleware parameter names" *)
ExpressParams == {"req", "res", "next", "err"}

(* the name pushed for a member_expression callee: the property, whatever  *)
(* the object is *)
extract_member_call(member_node) ==
    LET n == Len(member_node.children) IN
    IF n >= 1 /\ member_node.children[n].kind = "property_identifier"
    THEN <<node_text(member_node.children[n])>>
    ELSE <<>>

extract_member_call_with_context(member_node, class_context) ==
    LET n == Len(member_node.children) IN
    IF n >= 1 /\ member_node.children[n].kind = "property_identifier"
    THEN IF node_text(member_node.children[1]) = "this" /\ class_context # ""
         THEN <<class_context \o "." \o node_text(member_node.children[n])>>
         ELSE <<node_text(member_node.children[n])>>
    ELSE <<>>

(* is_express_method of the callee of a call_expression *)
is_express_method(node) ==
    /\ Len(node.children) >= 1
    /\ node.children[1].kind = "member_expression"
    /\ LET callee == node.children[1]
           n == Len(callee.children) IN
       /\ n >= 1
       /\ callee.children[n].kind = "property_identifier"
       /\ node_text(callee.children[n]) \in ExpressMethods

(* "Extract module.exports references": the identifiers assigned to it *)
module_exports_names(node) ==
    IF /\ node.kind = "assignment_expression"
       /\ \E i \in 1..Len(node.children) :
            node.children[i].kind = "member_expression"
              /\ node_text(node.children[i]) = "module.exports"
    THEN identifier_texts(node.children)
    ELSE <<>>

(* the names the call_expression branch of extract_calls_recursive pushes *)
js_call_names(node) ==
    (IF Len(node.children) >= 1
     THEN IF node.children[1].kind = "identifier" THEN <<node_text(node.children[1])>>
          ELSE IF node.children[1].kind = "member_expression"
          THEN extract_member_call(node.children[1])
          ELSE <<>>
     ELSE <<>>)
        \o (IF is_express_method(node)
            THEN SelectSeq(arguments_identifiers(node.children),
                           LAMBDA name : name \notin ExpressParams)
            ELSE <<>>)

(* the same branch of extract_calls_recursive_with_context: the argument   *)
(* identifiers are pushed as they are *)
js_call_names_with_context(node, class_context) ==
    (IF Len(node.children) >= 1
     THEN IF node.children[1].kind = "identifier" THEN <<node_text(node.children[1])>>
          ELSE IF node.children[1].kind = "member_expression"
          THEN extract_member_call_with_context(node.children[1], class_context)
          ELSE <<>>
     ELSE <<>>)
        \o (IF is_express_method(node) THEN arguments_identifiers(node.children) ELSE <<>>)

RECURSIVE js_extract_calls_recursive(_)
RECURSIVE js_extract_calls_children(_)
js_extract_calls_recursive(node) ==
    (IF node.kind = "call_expression" THEN js_call_names(node) ELSE <<>>)
        \o module_exports_names(node)
        \o js_extract_calls_children(node.children)

js_extract_calls_children(ns) ==
    IF ns = <<>> THEN <<>>
    ELSE js_extract_calls_recursive(Head(ns)) \o js_extract_calls_children(Tail(ns))

RECURSIVE js_extract_calls_recursive_with_context(_, _)
RECURSIVE js_extract_calls_children_with_context(_, _)
js_extract_calls_recursive_with_context(node, class_context) ==
    (IF node.kind = "call_expression"
     THEN js_call_names_with_context(node, class_context) ELSE <<>>)
        \o module_exports_names(node)
        \o js_extract_calls_children_with_context(node.children, class_context)

js_extract_calls_children_with_context(ns, class_context) ==
    IF ns = <<>> THEN <<>>
    ELSE js_extract_calls_recursive_with_context(Head(ns), class_context)
            \o js_extract_calls_children_with_context(Tail(ns), class_context)

js_extract_calls_from_function_with_context(func_node, class_context) ==
    js_extract_calls_children_with_context(func_node.children, class_context)

(* dotted_call_of that leaves every call without target module *)
dotted_call_unresolved(call_name, module) == FunctionCall_new(call_name, None, 0)

(* the FunctionCall made of an extracted name: JavaScript and Python look  *)
(* for a dot in the name *)
dotted_call_of(call_name, module) ==
    FunctionCall_new(call_name,
                     IF contains(call_name, ".") THEN Some(module) ELSE None, 0)

(* a function of the given name with the calls of the names *)
function_of_calls(name, calls, module) ==
    with_calls(FunctionDef_new(name, Signature_empty, module),
               [i \in 1..Len(calls) |-> dotted_call_of(calls[i], module)])

(* "Check if we already have a module-level function": the calls go to it, *)
(* or the function is added *)
add_module_calls(ast, func_def) ==
    LET existing == {i \in 1..Len(ast.functions) : ast.functions[i].name = "<module>"} IN
    IF func_def.calls = <<>> THEN ast
    ELSE IF existing # {}
    THEN LET i == CHOOSE k \in existing : \A j \in existing : k <= j IN
         [ast EXCEPT !.functions[i].calls = @ \o func_def.calls]
    ELSE add_function(ast, func_def)

(* the function_declaration branch of extract_ast_recursive *)
js_extract_function(node, module, ast, class_context) ==
    LET func_name == first_child_text(node, {"identifier"}) IN
    IF func_name = "" THEN ast
    ELSE add_function(ast,
             function_of_calls(IF class_context = "" THEN func_name
                               ELSE class_context \o "." \o func_name,
                               js_extract_calls_from_function_with_context(node, class_context),
                               module))

(* one variable_declarator of the variable_declaration branch *)
js_extract_declarator(child, module, ast) ==
    LET var_name == first_child_text(child, {"identifier"})
        arrows == {j \in 1..Len(child.children) : child.children[j].kind = "arrow_function"} IN
    IF var_name = "" \/ arrows = {} THEN ast
    ELSE LET func_node == child.children[CHOOSE j \in arrows : \A k \in arrows : k <= j] IN
         add_function(ast,
             function_of_calls(var_name,
                               js_extract_calls_from_function_with_context(func_node, ""),
                               module))

RECURSIVE js_extract_declarators(_, _, _)
js_extract_declarators(ns, module, ast) ==
    IF ns = <<>> THEN ast
    ELSE js_extract_declarators(Tail(ns), module,
             IF Head(ns).kind = "variable_declarator"
             THEN js_extract_declarator(Head(ns), module, ast) ELSE ast)

(* the method_definition branch *)
js_extract_method(node, module, ast, class_context) ==
    LET func_name == first_child_text(node, {"property_identifier"}) IN
    IF func_name = "" THEN ast
    ELSE add_function(ast,
             function_of_calls(class_context \o "." \o func_name,
                               js_extract_calls_from_function_with_context(node, class_context),
                               module))

(* the expression_statement branch *)
js_extract_expression_statement(node, module, ast) ==
    add_module_calls(ast, function_of_calls("<module>", js_extract_calls_recursive(node), module))

(* what extract_ast_recursive does to the ast at one node *)
js_extract_ast_node(node, module, ast, class_context) ==
    IF node.kind \in {"function_declaration", "function"}
    THEN js_extract_function(node, module, ast, class_context)
    ELSE IF node.kind = "variable_declaration" /\ class_context = ""
    THEN js_extract_declarators(node.children, module, ast)
    ELSE IF node.kind = "method_definition"
    THEN js_extract_method(node, module, ast, class_context)
    ELSE IF node.kind = "expression_statement" /\ class_context = ""
    THEN js_extract_expression_statement(node, module, ast)
    ELSE ast

RECURSIVE js_ast_walk(_, _)
RECURSIVE js_ast_walk_children(_, _)
(* the nodes extract_ast_recursive has a branch for, in the order it       *)
(* reaches them, each with the class context it is reached with *)
js_ast_walk(node, class_context) ==
    IF node.kind \in {"class_declaration", "class"}
    THEN js_ast_walk_children(node.children, first_child_text(node, {"identifier"}))
    ELSE (IF node.kind \in {"function_declaration", "function", "variable_declaration",
                            "method_definition", "expression_statement"}
          THEN <<[node |-> node, class_context |-> class_context]>> ELSE <<>>)
            \o js_ast_walk_children(node.children, class_context)

js_ast_walk_children(ns, class_context) ==
    IF ns = <<>> THEN <<>>
    ELSE js_ast_walk(Head(ns), class_context) \o js_ast_walk_children(Tail(ns), class_context)

RECURSIVE js_extract_ast_steps(_, _, _)
js_extract_ast_steps(steps, module, ast) ==
    IF steps = <<>> THEN ast
    ELSE js_extract_ast_steps(Tail(steps), module,
             js_extract_ast_node(Head(steps).node, module, ast, Head(steps).class_context))

js_extract_ast_recursive(node, module, ast, class_context) ==
    js_extract_ast_steps(js_ast_walk(node, class_context), module, ast)

(* JavaScriptTranslator::translate of a parsed source *)
js_translate(root, module_path) ==
    js_extract_ast_recursive(root, module_path, AbstractAST_new(module_path), "")

-----------------------------------------------------------------------------
(* translators/python.rs, on the same syntax nodes *)

(* str::ends_with *)
ends_with(s, p) == Len(s) >= Len(p) /\ SubSeq(s, Len(s) - Len(p) + 1, Len(s)) = p

(* "Check for common Flask/Django methods" *)
FlaskMethods ==
    {".add_url_rule", ".register_error_handler", ".register_blueprint",
     ".before_request", ".after_request"}

(* object_name and method_name of an attribute node: its first and its     *)
(* last further identifier child *)
attribute_names(attribute_node) ==
    LET ids == identifier_texts(attribute_node.children) IN
    [object_name |-> IF Len(ids) >= 1 THEN Some(ids[1]) ELSE None,
     method_name |-> IF Len(ids) >= 2 THEN Some(ids[Len(ids)]) ELSE None]

extract_attribute_call(attribute_node) ==
    LET a == attribute_names(attribute_node) IN
    IF a.object_name.is_some /\ a.method_name.is_some THEN <<a.method_name.value>> ELSE <<>>

extract_attribute_call_with_context(attribute_node, class_context) ==
    LET a == attribute_names(attribute_node) IN
    IF a.object_name.is_some /\ a.method_name.is_some
    THEN IF a.object_name.value = "self" /\ class_context # ""
         THEN <<class_context \o "." \o a.method_name.value>>
         ELSE <<a.method_name.value>>
    ELSE <<>>

(* the identifier arguments of a call of one of the Flask methods *)
py_handler_references(node) ==
    IF /\ Len(node.children) >= 1
       /\ node.children[1].kind = "attribute"
       /\ \E m \in FlaskMethods : ends_with(node_text(node.children[1]), m)
    THEN arguments_identifiers(node.children)
    ELSE <<>>

(* the names the call branch of extract_calls_recursive pushes *)
py_call_names(node) ==
    (IF Len(node.children) >= 1
     THEN IF node.children[1].kind = "identifier" THEN <<node_text(node.children[1])>>
          ELSE IF node.children[1].kind = "attribute"
          THEN extract_attribute_call(node.children[1])
          ELSE <<>>
     ELSE <<>>)
        \o py_handler_references(node)

py_call_names_with_context(node, class_context) ==
    (IF Len(node.children) >= 1
     THEN IF node.children[1].kind = "identifier" THEN <<node_text(node.children[1])>>
          ELSE IF node.children[1].kind = "attribute"
          THEN extract_attribute_call_with_context(node.children[1], class_context)
          ELSE <<>>
     ELSE <<>>)
        \o py_handler_references(node)

RECURSIVE py_extract_calls_recursive(_)
RECURSIVE py_extract_calls_children(_)
py_extract_calls_recursive(node) ==
    (IF node.kind = "call" THEN py_call_names(node) ELSE <<>>)
        \o py_extract_calls_children(node.children)

py_extract_calls_children(ns) ==
    IF ns = <<>> THEN <<>>
    ELSE py_extract_calls_recursive(Head(ns)) \o py_extract_calls_children(Tail(ns))

RECURSIVE py_extract_calls_recursive_with_context(_, _)
RECURSIVE py_extract_calls_children_with_context(_, _)
py_extract_calls_recursive_with_context(node, class_context) ==
    (IF node.kind = "call" THEN py_call_names_with_context(node, class_context) ELSE <<>>)
        \o py_extract_calls_children_with_context(node.children, class_context)

py_extract_calls_children_with_context(ns, class_context) ==
    IF ns = <<>> THEN <<>>
    ELSE py_extract_calls_recursive_with_context(Head(ns), class_context)
            \o py_extract_calls_children_with_context(Tail(ns), class_context)

py_extract_calls_from_function_with_context(func_node, class_context) ==
    py_extract_calls_children_with_context(func_node.children, class_context)

(* the function_definition branch of extract_ast_recursive *)
py_extract_function(node, module, ast, class_context) ==
    LET func_name == first_child_text(node, {"identifier"}) IN
    IF func_name = "" THEN ast
    ELSE add_function(ast,
             function_of_calls(IF class_context = "" THEN func_name
                               ELSE class_context \o "." \o func_name,
                               py_extract_calls_from_function_with_context(node, class_context),
                               module))

(* the expression_statement branch *)
py_extract_expression_statement(node, module, ast) ==
    add_module_calls(ast, function_of_calls("<module>", py_extract_calls_recursive(node), module))

py_extract_ast_node(node, module, ast, class_context) ==
    LET a1 == IF node.kind = "function_definition"
              THEN py_extract_function(node, module, ast, class_context)
              ELSE ast IN
    IF node.kind = "expression_statement" /\ class_context = ""
    THEN py_extract_expression_statement(node, module, a1)
    ELSE a1

RECURSIVE py_ast_walk(_, _)
RECURSIVE py_ast_walk_children(_, _)
py_ast_walk(node, class_context) ==
    IF node.kind = "class_definition"
    THEN py_ast_walk_children(node.children, first_child_text(node, {"identifier"}))
    ELSE (IF node.kind \in {"function_definition", "expression_statement"}
          THEN <<[node |-> node, class_context |-> class_context]>> ELSE <<>>)
            \o py_ast_walk_children(node.children, class_context)

py_ast_walk_children(ns, class_context) ==
    IF ns = <<>> THEN <<>>
    ELSE py_ast_walk(Head(ns), class_context) \o py_ast_walk_children(Tail(ns), class_context)

RECURSIVE py_extract_ast_steps(_, _, _)
py_extract_ast_steps(steps, module, ast) ==
    IF steps = <<>> THEN ast
    ELSE py_extract_ast_steps(Tail(steps), module,
             py_extract_ast_node(Head(steps).node, module, ast, Head(steps).class_context))

py_extract_ast_recursive(node, module, ast, class_context) ==
    py_extract_ast_steps(py_ast_walk(node, class_context), module, ast)

(* PythonTranslator::translate of a parsed source *)
py_translate(root, module_path) ==
    py_extract_ast_recursive(root, module_path, AbstractAST_new(module_path), "")

-----------------------------------------------------------------------------
(* Inputs of the builder *)

(* a signature with one typed parameter, as in test_signature_display *)
SigI32 == Signature_new(<< <<"x", "i32">> >>, "i32")

(* (module, name, signature) of the functions the asts declare *)
FuncKeys ==
    { <<"app", "main", Signature_empty>>,
      <<"app", "helper", Signature_empty>>,
      <<"app", "helper", SigI32>> }

(* the call sites: unresolved, module-qualified, and qualified with the    *)
(* reserved module *)
CallPool ==
    { FunctionCall_new("helper", None, 5),
      FunctionCall_new("println", None, 5),
      FunctionCall_new("helper", Some("app"), 5),
      FunctionCall_new("helper", Some("<external>"), 5) }

SeqsUpTo(S, n) == UNION {[1..k -> S] : k \in 0..n}

FuncPool ==
    { with_calls(FunctionDef_new(k[2], k[3], k[1]), cs) :
        k \in FuncKeys, cs \in SeqsUpTo(CallPool, MaxCalls) }

RECURSIVE TotalCalls(_)
(* number of call sites of a list of functions *)
TotalCalls(fs) == IF fs = <<>> THEN 0 ELSE Len(Head(fs).calls) + TotalCalls(Tail(fs))

(* the asts handed to add_ast: at most MaxFuncs functions and MaxCalls call *)
(* sites per ast *)
AstPool ==
    { [functions |-> fs, module_path |-> "app"] :
        fs \in {x \in SeqsUpTo(FuncPool, MaxFuncs) : TotalCalls(x) <= MaxCalls} }

-----------------------------------------------------------------------------
(* The builder as a state machine: add_ast and build on one builder *)

Init ==
    /\ translated = None
    /\ asts = CallGraphBuilder_new.asts
    /\ functions_map = CallGraphBuilder_new.functions_map
    /\ last = [op |-> "new", ok |-> TRUE]
    /\ built = [ok |-> FALSE, err |-> "not built"]
    /\ graph = CallGraph_new
    /\ result = [op |-> "none"]

(* add_ast that also clears the graphs handed out before *)
AddAst_invalidating(ast) ==
    /\ Len(asts) < MaxAsts
    /\ LET r == add_ast([asts |-> asts, functions_map |-> functions_map], ast) IN
        /\ asts' = r.builder.asts
        /\ functions_map' = r.builder.functions_map
        /\ last' = [op |-> "add_ast", ok |-> r.ok]
    /\ built' = [ok |-> FALSE, err |-> "not built"]
    /\ UNCHANGED <<translated, graph, result>>

AddAst(ast) ==
    /\ Len(asts) < MaxAsts
    /\ LET r == add_ast([asts |-> asts, functions_map |-> functions_map], ast) IN
        /\ asts' = r.builder.asts
        /\ functions_map' = r.builder.functions_map
        /\ last' = [op |-> "add_ast", ok |-> r.ok]
    /\ UNCHANGED <<translated, built, graph, result>>

Build(order) ==
    /\ built' = build(functions_map, order)
    /\ last' = [op |-> "build", ok |-> built'.ok]
    /\ UNCHANGED <<translated, asts, functions_map, graph, result>>

Next ==
    \/ \E ast \in AstPool : AddAst(ast)
    \/ \E order \in IterationOrders(DOMAIN functions_map) : Build(order)

Spec == Init /\ [][Next]_vars

-----------------------------------------------------------------------------
(* Properties of the builder *)

(* the graph in built is the one build() returned for the current builder *)
BuiltNow == last.op = "build" /\ built.ok

(* the functions of the builder and their call sites, as (caller, index) *)
CallSites(fm) == UNION {{<<f, i>> : i \in 1..Len(fm[f].calls)} : f \in DOMAIN fm}

CallAt(fm, site) == fm[site[1]].calls[site[2]]

(* build() adds one edge per call, in call order: the edge of a call site *)
EdgeOfCall(g, site) == get_edges_from(g, site[1])[site[2]]

(* a build of the map fm in one of its iteration orders *)
BuildOf(fm) == build(fm, CHOOSE o \in IterationOrders(DOMAIN fm) : TRUE)

EdgeSet(g) == {g.edges[i] : i \in 1..Len(g.edges)}

(* two build results agree on the nodes and on the edges *)
SameBuild(b1, b2) ==
    /\ b1.ok = b2.ok
    /\ b1.ok => /\ b1.graph.nodes = b2.graph.nodes
                /\ EdgeSet(b1.graph) = EdgeSet(b2.graph)
                /\ Len(b1.graph.edges) = Len(b2.graph.edges)

(* C3: a rejected add_ast leaves the builder exactly as it was, so that a  *)
(* build after the failed call yields the nodes and edges of a build       *)
(* before it *)
C3_AddAstAtomic ==
    [][(last'.op = "add_ast" /\ ~last'.ok) =>
          /\ asts' = asts
          /\ functions_map' = functions_map
          /\ SameBuild(BuildOf(functions_map), BuildOf(functions_map'))]_vars

(* C4: build() on a builder reached by add_ast calls returns a graph,      *)
(* never the missing-endpoint error *)
C4_BuildNeverFails == last.op = "build" => built.ok

(* the builder declares a function of this name in this module *)
Declares(fm, module, name) ==
    \E f \in DOMAIN fm : fm[f].module = module /\ fm[f].name = name

(* C5: a call that carries a target module is matched by module and name   *)
(* only: when the builder declares a function of that name in that module, *)
(* with any signature, the call's edge targets an internal node of that    *)
(* name and module and no external node is synthesized for it *)
C5_ModuleNameMatch ==
    BuiltNow =>
      \A site \in CallSites(functions_map) :
        LET call == CallAt(functions_map, site) IN
        (call.target_module.is_some
           /\ Declares(functions_map, call.target_module.value, call.target_name)) =>
          LET to == EdgeOfCall(built.graph, site).to IN
          /\ ~built.graph.nodes[to].is_external
          /\ built.graph.nodes[to].metadata.name = call.target_name
          /\ built.graph.nodes[to].metadata.module = call.target_module.value

(* C6: every external node of a built graph has an id with the reserved    *)
(* module prefix <external> *)
C6_ExternalPrefix ==
    BuiltNow =>
      \A id \in DOMAIN built.graph.nodes :
        built.graph.nodes[id].is_external => starts_with(id, "<external>::")

(* every call site of the builder is a call without target module *)
AllUnresolved(fm) == \A site \in CallSites(fm) : ~CallAt(fm, site).target_module.is_some

(* the names called without target module *)
UnresolvedNames(fm) ==
    {CallAt(fm, site).target_name :
        site \in {x \in CallSites(fm) : ~CallAt(fm, x).target_module.is_some}}

(* C7: all calls without target module and with the same name end in the   *)
(* one node <external>::<name>::(), which is flagged external; a builder   *)
(* that makes only such calls builds (functions + distinct names) nodes    *)
(* and one edge per call *)
C7_ExternalCollapse ==
    BuiltNow =>
      /\ \A site \in CallSites(functions_map) :
           LET call == CallAt(functions_map, site) IN
           ~call.target_module.is_some =>
             /\ EdgeOfCall(built.graph, site).to
                  = "<external>::" \o call.target_name \o "::()"
             /\ built.graph.nodes[EdgeOfCall(built.graph, site).to].is_external
      /\ AllUnresolved(functions_map) =>
           /\ node_count(built.graph)
                = Cardinality(DOMAIN functions_map)
                    + Cardinality(UnresolvedNames(functions_map))
           /\ edge_count(built.graph) = Cardinality(CallSites(functions_map))

(* two functions of different asts call the same unresolved name and the   *)
(* built graph holds the two edges *)
C7_Witness ==
    /\ BuiltNow
    /\ Len(asts) = 2
    /\ AllUnresolved(functions_map)
    /\ \E s1, s2 \in CallSites(functions_map) :
         /\ s1[1] # s2[1]
         /\ CallAt(functions_map, s1).target_name = CallAt(functions_map, s2).target_name
         /\ EdgeOfCall(built.graph, s1).to = EdgeOfCall(built.graph, s2).to
    /\ edge_count(built.graph) = 2
    /\ node_count(built.graph) = 3

(* C8: the external node synthesized for an unresolved call named n has    *)
(* the canonical id generate_id("<external>", n, Signature::empty()), the  *)
(* fn_id() of the FunctionDef stored as its metadata *)
C8_ExternalIdCanonical ==
    BuiltNow =>
      \A site \in CallSites(functions_map) :
        LET call == CallAt(functions_map, site)
            to == EdgeOfCall(built.graph, site).to IN
        ~call.target_module.is_some =>
          /\ to = generate_id("<external>", call.target_name, Signature_empty)
          /\ to = fn_id(built.graph.nodes[to].metadata)

-----------------------------------------------------------------------------
(* The graph store as a state machine: a CallGraph that is new or was      *)
(* returned by build(), changed through insert_node and insert_edge *)

(* the metadata of create_test_node *)
test_func == FunctionDef_new("test", Signature_empty, "test")

(* ids of the nodes handed to insert_node *)
NodeIds == {"a::()", "b::()"}

(* an id that is never inserted *)
MissingId == "c::()"

NodePool ==
    {GraphNode_internal(id, test_func) : id \in NodeIds}
        \cup {GraphNode_external(id, test_func) : id \in NodeIds}

EdgePool == {GraphEdge_new(f, t, 5) : f, t \in NodeIds \cup {MissingId}}

(* the graphs build() returns for a builder that holds one ast *)
BuiltGraphs ==
    UNION { LET fm == add_ast(CallGraphBuilder_new, ast).builder.functions_map IN
            {build(fm, o).graph :
                o \in {x \in IterationOrders(DOMAIN fm) : build(fm, x).ok}} :
            ast \in {a \in AstPool : add_ast(CallGraphBuilder_new, a).ok} }

InitGraph ==
    /\ translated = None
    /\ asts = CallGraphBuilder_new.asts
    /\ functions_map = CallGraphBuilder_new.functions_map
    /\ last = [op |-> "new", ok |-> TRUE]
    /\ built = [ok |-> FALSE, err |-> "not built"]
    /\ graph \in {CallGraph_new} \cup BuiltGraphs
    /\ result = [op |-> "none"]

InsertNode(node) ==
    /\ LET r == insert_node(graph, node) IN
        /\ graph' = r.graph
        /\ last' = [op |-> "insert_node", ok |-> r.ok]
    /\ UNCHANGED <<translated, asts, functions_map, built, result>>

InsertEdge(edge) ==
    /\ Len(graph.edges) < MaxEdges
    /\ LET r == insert_edge(graph, edge) IN
        /\ graph' = r.graph
        /\ last' = [op |-> "insert_edge", ok |-> r.ok]
    /\ UNCHANGED <<translated, asts, functions_map, built, result>>

NextGraph ==
    \/ \E node \in NodePool : InsertNode(node)
    \/ \E edge \in EdgePool : InsertEdge(edge)

SpecGraph == InitGraph /\ [][NextGraph]_vars

(* no edge of g dangles *)
NoDangling(g) ==
    \A i \in 1..Len(g.edges) :
        g.edges[i].from \in DOMAIN g.nodes /\ g.edges[i].to \in DOMAIN g.nodes

(* C2: in every graph returned by build and every state reached from it or *)
(* from the empty graph through insert_node and insert_edge, both ends of  *)
(* every edge are keys of the node map; an insert_edge with a missing      *)
(* endpoint is rejected and adds no edge *)
C2_EdgesNeverDangle ==
    /\ NoDangling(graph)
    /\ \A edge \in EdgePool :
         (edge.from \notin DOMAIN graph.nodes \/ edge.to \notin DOMAIN graph.nodes) =>
           /\ ~insert_edge(graph, edge).ok
           /\ insert_edge(graph, edge).graph = graph

(* an edge was inserted into a graph returned by build, and the last       *)
(* insert_edge, with a missing endpoint, was rejected *)
C2_Witness ==
    /\ last = [op |-> "insert_edge", ok |-> FALSE]
    /\ Len(graph.edges) >= 2
    /\ \E i \in 1..Len(graph.edges) : graph.edges[i].to \notin NodeIds
    /\ \E i \in 1..Len(graph.edges) : graph.edges[i].from \in NodeIds

-----------------------------------------------------------------------------
(* Traversal and query on a CallGraph *)

TraversalNodes ==
    { GraphNode_internal("a::()", FunctionDef_new("a", Signature_empty, "root")),
      GraphNode_internal("b::()", FunctionDef_new("b", Signature_empty, "root")),
      GraphNode_external("<external>::ext::()", FunctionDef_new("ext", Signature_empty, "ext")) }

(* the start ids: the nodes' ids and one id that is no node *)
StartIds == {n.id : n \in TraversalNodes} \cup {"missing::()"}

(* the graphs insert_node and insert_edge can produce from TraversalNodes  *)
(* with at most MaxEdges edges *)
TraversalGraphs ==
    UNION { { [nodes |-> [id \in {n.id : n \in ns} |-> CHOOSE n \in ns : n.id = id],
               edges |-> es] :
                es \in SeqsUpTo({GraphEdge_new(f.id, t.id, 1) : f, t \in ns}, MaxEdges) } :
            ns \in SUBSET TraversalNodes }

InitTraversal ==
    /\ translated = None
    /\ asts = CallGraphBuilder_new.asts
    /\ functions_map = CallGraphBuilder_new.functions_map
    /\ last = [op |-> "new", ok |-> TRUE]
    /\ built = [ok |-> FALSE, err |-> "not built"]
    /\ graph \in TraversalGraphs
    /\ result = [op |-> "none"]

DfsTraversal(g, start) ==
    /\ LET r == dfs_traversal(g, start) IN
        result' = [op |-> "dfs_traversal", start |-> start,
                   reachable |-> r.reachable, visited_order |-> r.visited_order]
    /\ UNCHANGED <<translated, asts, functions_map, last, built, graph>>

BfsTraversal(g, start) ==
    /\ LET r == bfs_traversal(g, start) IN
        result' = [op |-> "bfs_traversal", start |-> start,
                   reachable |-> r.reachable, visited_order |-> r.visited_order]
    /\ UNCHANGED <<translated, asts, functions_map, last, built, graph>>

ReachableFrom(g, id) ==
    /\ LET r == reachable_from(g, id) IN
        result' = IF r.ok
                  THEN [op |-> "reachable_from", start |-> id, ok |-> TRUE,
                        reachable |-> r.reachable]
                  ELSE [op |-> "reachable_from", start |-> id, ok |-> FALSE, err |-> r.err]
    /\ UNCHANGED <<translated, asts, functions_map, last, built, graph>>

(* the Vec direct_callees returns *)
DirectCallees(g, id) ==
    /\ \E callees \in direct_callees(g, id) :
         result' = [op |-> "direct_callees", start |-> id, callees |-> callees]
    /\ UNCHANGED <<translated, asts, functions_map, last, built, graph>>

TraversalFromEntries(g, entries) ==
    /\ LET r == traversal_from_entries(g, entries) IN
        result' = [op |-> "traversal_from_entries", entries |-> entries,
                   reachable |-> r.reachable, visited_order |-> r.visited_order]
    /\ UNCHANGED <<translated, asts, functions_map, last, built, graph>>

NextTraversal ==
    \/ \E start \in StartIds : DfsTraversal(graph, start)
    \/ \E start \in StartIds : BfsTraversal(graph, start)
    \/ \E id \in StartIds : ReachableFrom(graph, id)
    \/ \E id \in StartIds : DirectCallees(graph, id)
    \/ \E entries \in SeqsUpTo(StartIds, MaxEntries) : TraversalFromEntries(graph, entries)

SpecTraversal == InitTraversal /\ [][NextTraversal]_vars

RECURSIVE Closure(_, _)
(* the ids reachable from the set S along zero or more edges of g *)
Closure(g, S) ==
    LET N == S \cup {e.to : e \in {x \in EdgeSet(g) : x.from \in S}} IN
    IF N = S THEN S ELSE Closure(g, N)

(* C9: for an id that is a node, reachable_from(id) is exactly the set of  *)
(* nodes reachable from id along zero or more directed edges, id included  *)
C9_ReachableExact ==
    (result.op = "reachable_from" /\ result.start \in DOMAIN graph.nodes) =>
      /\ result.ok
      /\ result.reachable = Closure(graph, {result.start})
      /\ result.start \in result.reachable

(* reachable_from answered two of three nodes, through a cycle, and left   *)
(* out a node that has an edge into the answer but no path from the start  *)
C9_Witness ==
    /\ result.op = "reachable_from"
    /\ result.ok
    /\ node_count(graph) = 3
    /\ Cardinality(result.reachable) = 2
    /\ \E i \in 1..Len(graph.edges) :
         graph.edges[i].from \notin result.reachable /\ graph.edges[i].to \in result.reachable
    /\ \E i \in 1..Len(graph.edges) :
         graph.edges[i].to = result.start /\ graph.edges[i].from # result.start

(* C10: dfs_traversal and bfs_traversal from the same start on the same    *)
(* graph return the same reachable set *)
C10_DfsBfsSameSet ==
    /\ result.op = "dfs_traversal" =>
         result.reachable = bfs_traversal(graph, result.start).reachable
    /\ result.op = "bfs_traversal" =>
         result.reachable = dfs_traversal(graph, result.start).reachable

(* a traversal reached three nodes and the two visit orders differ *)
C10_Witness ==
    /\ result.op = "dfs_traversal"
    /\ Cardinality(result.reachable) = 3
    /\ result.visited_order # bfs_traversal(graph, result.start).visited_order

-----------------------------------------------------------------------------
(* The pipeline of main.rs on one Rust file: translate, add_ast, build,    *)
(* reachable set of an entry.  The files are the fixture                   *)
(* tests/fixtures/entry_point/rust/main.rs with the body of main_entry     *)
(* drawn from its statements, as the parser hands them over *)

CallExpr(callee, args) ==
    Tree("call_expression",
         <<callee, Tree("arguments", <<Leaf("(", "(")>> \o args \o <<Leaf(")", ")")>>)>>)

ScopedIdentifier(path, name) ==
    Tree("scoped_identifier", <<Leaf("identifier", path), Leaf("::", "::"), Leaf("identifier", name)>>)

MacroInvocation(name) ==
    Tree("macro_invocation", <<Leaf("identifier", name), Leaf("!", "!"), Tree("token_tree", <<>>)>>)

ExprStmt(e) == Tree("expression_statement", <<e, Leaf(";", ";")>>)

LetDecl(name, value) ==
    Tree("let_declaration",
         <<Leaf("let", "let"), Leaf("identifier", name), Leaf("=", "="), value, Leaf(";", ";")>>)

FunctionItem(name, stmts) ==
    Tree("function_item",
         <<Leaf("fn", "fn"), Leaf("identifier", name),
           Tree("parameters", <<Leaf("(", "("), Leaf(")", ")")>>),
           Tree("block", <<Leaf("{", "{")>> \o stmts \o <<Leaf("}", "}")>>)>>)

(* the statements of main_entry, and process_data(data) as a statement *)
StmtPool ==
    { LetDecl("data", CallExpr(ScopedIdentifier("utils", "load_data"), <<>>)),
      LetDecl("result", CallExpr(Leaf("identifier", "process_data"),
                                 <<Leaf("identifier", "data")>>)),
      ExprStmt(CallExpr(Leaf("identifier", "output_result"), <<Leaf("identifier", "result")>>)),
      ExprStmt(CallExpr(Leaf("identifier", "process_data"), <<Leaf("identifier", "data")>>)) }

RustFile(body) ==
    Tree("source_file",
         << Tree("mod_item", <<Leaf("mod", "mod"), Leaf("identifier", "utils"), Leaf(";", ";")>>),
            FunctionItem("main_entry", body),
            FunctionItem("process_data",
                <<CallExpr(ScopedIdentifier("utils", "transform_data"),
                           <<Leaf("identifier", "data")>>)>>),
            FunctionItem("output_result", <<ExprStmt(MacroInvocation("println"))>>),
            FunctionItem("unused_function", <<ExprStmt(MacroInvocation("println"))>>) >>)

RustFiles == {RustFile(body) : body \in SeqsUpTo(StmtPool, MaxStmts)}

InitRust == Init

TranslateRust(file) ==
    /\ ~translated.is_some
    /\ translated' = Some(translate(file, "app"))
    /\ last' = [op |-> "translate", ok |-> TRUE]
    /\ UNCHANGED <<asts, functions_map, built, graph, result>>

NextRust ==
    \/ \E file \in RustFiles : TranslateRust(file)
    \/ translated.is_some /\ AddAst(translated.value)
    \/ \E order \in IterationOrders(DOMAIN functions_map) : Build(order)
    \/ \E id \in DOMAIN functions_map : BuiltNow /\ ReachableFrom(built.graph, id)

SpecRust == InitRust /\ [][NextRust]_vars

(* C1: a call by bare name of a function declared in the same module gets  *)
(* an edge to that function's own internal node, so that the set reachable *)
(* from main_entry holds the internal nodes of the functions it calls and  *)
(* not unused_function *)
C1_BareCallReachesInternal ==
    (BuiltNow /\ result.op = "reachable_from" /\ result.ok) =>
      /\ \A site \in CallSites(functions_map) :
           LET call == CallAt(functions_map, site) IN
           \A f \in DOMAIN functions_map :
             ( /\ site[1] = result.start
               /\ ~contains(call.target_name, "::")
               /\ functions_map[f].name = call.target_name
               /\ functions_map[f].module = functions_map[site[1]].module ) =>
                 /\ EdgeOfCall(built.graph, site).to = f
                 /\ f \in result.reachable
      /\ result.start = "app::main_entry::() -> ()" =>
           "app::unused_function::() -> ()" \notin result.reachable

-----------------------------------------------------------------------------
(* Cycle detection on a CallGraph: the graphs of the tests of              *)
(* cycles/mod.rs (nodes a, b, c of module root) under every edge list      *)

CycleNodes ==
    { GraphNode_internal("a::()", FunctionDef_new("a", Signature_empty, "root")),
      GraphNode_internal("b::()", FunctionDef_new("b", Signature_empty, "root")),
      GraphNode_internal("c::()", FunctionDef_new("c", Signature_empty, "root")) }

(* the nine edges between the three nodes, in the order of their ends *)
CycleEdgeList ==
    << GraphEdge_new("a::()", "a::()", 1), GraphEdge_new("a::()", "b::()", 1),
       GraphEdge_new("a::()", "c::()", 1), GraphEdge_new("b::()", "a::()", 1),
       GraphEdge_new("b::()", "b::()", 1), GraphEdge_new("b::()", "c::()", 1),
       GraphEdge_new("c::()", "a::()", 1), GraphEdge_new("c::()", "b::()", 1),
       GraphEdge_new("c::()", "c::()", 1) >>

Reverse(seq) == [i \in 1..Len(seq) |-> seq[Len(seq) + 1 - i]]

GraphOf(ns, es) ==
    [nodes |-> [id \in {n.id : n \in ns} |-> CHOOSE n \in ns : n.id = id], edges |-> es]

(* every list of at most MaxEdges edges (parallel edges included) on every *)
(* subset of the nodes, and every set of edges on the three nodes inserted *)
(* in ascending and in descending order *)
CycleGraphs ==
    UNION { { GraphOf(ns, es) :
                es \in SeqsUpTo({GraphEdge_new(f.id, t.id, 1) : f, t \in ns}, MaxEdges) } :
            ns \in SUBSET CycleNodes }
      \cup UNION { LET es == SelectSeq(CycleEdgeList, LAMBDA e : e \in E) IN
                   {GraphOf(CycleNodes, es), GraphOf(CycleNodes, Reverse(es))} :
                   E \in SUBSET {CycleEdgeList[i] : i \in 1..Len(CycleEdgeList)} }

InitCycles ==
    /\ translated = None
    /\ asts = CallGraphBuilder_new.asts
    /\ functions_map = CallGraphBuilder_new.functions_map
    /\ last = [op |-> "new", ok |-> TRUE]
    /\ built = [ok |-> FALSE, err |-> "not built"]
    /\ graph \in CycleGraphs
    /\ result = [op |-> "none"]

FindCycles(g, keys) ==
    /\ result' = [op |-> "find_cycles", cycles |-> find_cycles(g, keys)]
    /\ UNCHANGED <<translated, asts, functions_map, last, built, graph>>

HasCycles(g, keys) ==
    /\ result' = [op |-> "has_cycles", value |-> has_cycles(g, keys)]
    /\ UNCHANGED <<translated, asts, functions_map, last, built, graph>>

NextCycles ==
    \/ \E keys \in IterationOrders(DOMAIN graph.nodes) : FindCycles(graph, keys)
    \/ \E keys \in IterationOrders(DOMAIN graph.nodes) : HasCycles(graph, keys)

SpecCycles == InitCycles /\ [][NextCycles]_vars

(* g has an edge from f to t *)
HasEdge(g, f, t) == \E e \in EdgeSet(g) : e.from = f /\ e.to = t

(* some node of g reaches itself along one or more edges *)
HasDirectedCycle(g) ==
    \E n \in DOMAIN g.nodes : n \in Closure(g, {e.to : e \in {x \in EdgeSet(g) : x.from = n}})

(* C11: has_cycles is true exactly when the graph has a directed cycle (a  *)
(* self-loop or a longer one, with or without parallel edges), and on an   *)
(* acyclic graph find_cycles returns the empty list *)
C11_HasCyclesExact ==
    /\ result.op = "has_cycles" => (result.value <=> HasDirectedCycle(graph))
    /\ (result.op = "find_cycles" /\ ~HasDirectedCycle(graph)) => result.cycles = <<>>

(* has_cycles answered true on a graph without self-loop whose cycle runs  *)
(* over a parallel edge *)
C11_Witness ==
    /\ result.op = "has_cycles"
    /\ result.value
    /\ \A n \in DOMAIN graph.nodes : ~HasEdge(graph, n, n)
    /\ \E i, j \in 1..Len(graph.edges) : i # j /\ graph.edges[i] = graph.edges[j]

(* the node sequence p started k places later *)
Rotation(p, k) == [i \in 1..Len(p) |-> p[((i - 1 + k) % Len(p)) + 1]]

Rotations(p) == {Rotation(p, k) : k \in 0..(Len(p) - 1)}

(* the three-node cycle of test_three_node_cycle *)
ThreeNodeCycle ==
    GraphOf(CycleNodes, << GraphEdge_new("a::()", "b::()", 1),
                           GraphEdge_new("b::()", "c::()", 1),
                           GraphEdge_new("c::()", "a::()", 1) >>)

(* C12: find_cycles reports each directed cycle once: no two entries are   *)
(* rotations of one another, every entry is the lexicographically smallest *)
(* of its rotations, and for the graph a->b, b->c, c->a the result is one  *)
(* cycle of length 3 *)
C12_CyclesOncePerRotation ==
    result.op = "find_cycles" =>
      /\ \A i, j \in 1..Len(result.cycles) :
           i # j => result.cycles[i].nodes \notin Rotations(result.cycles[j].nodes)
      /\ \A i \in 1..Len(result.cycles) :
           \A r \in Rotations(result.cycles[i].nodes) : ~vec_less(r, result.cycles[i].nodes)
      /\ graph = ThreeNodeCycle =>
           Len(result.cycles) = 1 /\ Len(result.cycles[1].nodes) = 3

(* the simple directed cycles of g as node sequences, every rotation *)
SimpleCycles(g) ==
    { p \in UNION {[1..n -> DOMAIN g.nodes] : n \in 1..node_count(g)} :
        /\ \A i, j \in 1..Len(p) : i # j => p[i] # p[j]
        /\ \A i \in 1..Len(p) : HasEdge(g, p[i], p[(i % Len(p)) + 1]) }

(* C13: every simple directed cycle of the graph, self-loops included,     *)
(* appears in the result of find_cycles in some rotation *)
C13_FindCyclesComplete ==
    result.op = "find_cycles" =>
      \A p \in SimpleCycles(graph) :
        \E i \in 1..Len(result.cycles) : result.cycles[i].nodes \in Rotations(p)

-----------------------------------------------------------------------------
(* Function ids of the functions of an ast: a method of an impl block is   *)
(* named Type::method by the translator, and a module path has :: too      *)

IdModules == {"app", "app::Calculator"}

IdNames == {"add", "Calculator::add", "validate"}

IdFuncPool ==
    {FunctionDef_new(n, sig, m) : n \in IdNames, sig \in {Signature_empty, SigI32}, m \in IdModules}

(* the asts of two functions *)
IdAsts ==
    {add_function(add_function(AbstractAST_new("app"), f1), f2) : f1, f2 \in IdFuncPool}

InitIds ==
    /\ translated \in {Some(ast) : ast \in IdAsts}
    /\ asts = CallGraphBuilder_new.asts
    /\ functions_map = CallGraphBuilder_new.functions_map
    /\ last = [op |-> "new", ok |-> TRUE]
    /\ built = [ok |-> FALSE, err |-> "not built"]
    /\ graph = CallGraph_new
    /\ result = [op |-> "none"]

FnId(ast) ==
    /\ result' = [op |-> "fn_id",
                  ids |-> [i \in 1..Len(ast.functions) |-> fn_id(ast.functions[i])]]
    /\ UNCHANGED <<translated, asts, functions_map, last, built, graph>>

NextIds ==
    \/ FnId(translated.value)
    \/ AddAst(translated.value)

SpecIds == InitIds /\ [][NextIds]_vars

(* C14: the ids of two functions are equal exactly when their modules,     *)
(* names and signatures are equal, also when a name or a module holds ::   *)
C14_FunctionIdInjective ==
    result.op = "fn_id" =>
      LET fs == translated.value.functions IN
      \A i, j \in 1..Len(fs) :
        (result.ids[i] = result.ids[j]) <=>
          (fs[i].module = fs[j].module /\ fs[i].name = fs[j].name
             /\ fs[i].signature = fs[j].signature)

-----------------------------------------------------------------------------
(* Adding an ast again *)

(* C15 as stated: for any ast the builder holds after a successful         *)
(* add_ast, an add_ast of the same ast returns an error *)
C15_SecondAddFails ==
    [][\A i \in 1..Len(asts) : AddAst(asts[i]) => ~last'.ok]_vars

(* C15 amended: for any ast with at least one function that the builder    *)
(* holds after a successful add_ast, an add_ast of the same ast returns    *)
(* the duplicate-function-id error and adds no ast *)
C15_SecondAddOfFunctionsFails ==
    [][\A i \in 1..Len(asts) :
          (asts[i].functions # <<>> /\ AddAst(asts[i])) => (~last'.ok /\ asts' = asts)]_vars

(* the builder holds one ast with two functions and exactly its ids, and   *)
(* the last add_ast was rejected *)
C15_Witness ==
    /\ last.op = "add_ast" /\ ~last.ok
    /\ Len(asts) = 1
    /\ Len(asts[1].functions) = 2
    /\ DOMAIN functions_map = {fn_id(asts[1].functions[i]) : i \in 1..2}

-----------------------------------------------------------------------------
(* build_from_entries on the builder *)

EntryIds == {"app::main::() -> ()", "app::helper::() -> ()", "app::missing::() -> ()"}

BuildFromEntries(order, entries) ==
    /\ LET r == build_from_entries(functions_map, order, entries) IN
        /\ result' = [op |-> "build_from_entries", entries |-> entries, r |-> r]
        /\ last' = [op |-> "build_from_entries", ok |-> r.ok]
    /\ UNCHANGED <<translated, asts, functions_map, built, graph>>

(* the builders after one add_ast, accepted or rejected *)
EntryBuilders == {add_ast(CallGraphBuilder_new, ast).builder : ast \in AstPool}

InitEntries ==
    /\ translated = None
    /\ \E b \in EntryBuilders : asts = b.asts /\ functions_map = b.functions_map
    /\ last = [op |-> "add_ast", ok |-> asts # <<>>]
    /\ built = [ok |-> FALSE, err |-> "not built"]
    /\ graph = CallGraph_new
    /\ result = [op |-> "none"]

NextEntries ==
    \E order \in IterationOrders(DOMAIN functions_map) :
      \E entries \in SeqsUpTo(EntryIds, MaxEntries) : BuildFromEntries(order, entries)

SpecEntries == InitEntries /\ [][NextEntries]_vars

(* C16: build_from_entries returns an error when an entry id, at any place *)
(* of the list, is not a node of the built graph, and returns the graph    *)
(* and a traversal result only when every entry id is a node of it *)
C16_EntriesAllNodes ==
    result.op = "build_from_entries" =>
      LET entries == result.entries
          fm == functions_map IN
      /\ result.r.ok =>
           \A i \in 1..Len(entries) : entries[i] \in DOMAIN result.r.graph.nodes
      /\ \A order \in IterationOrders(DOMAIN fm) :
           (build(fm, order).ok
              /\ \E i \in 1..Len(entries) : entries[i] \notin DOMAIN build(fm, order).graph.nodes)
             => ~result.r.ok

(* the first entry is a node, the second is not, the graph builds and      *)
(* build_from_entries returned the entry-point error *)
C16_Witness ==
    /\ result.op = "build_from_entries"
    /\ Len(result.entries) = 2
    /\ result.entries[1] \in DOMAIN functions_map
    /\ result.entries[2] \notin DOMAIN functions_map
    /\ ~result.r.ok
    /\ result.r.err = "Entry point not found: " \o result.entries[2]

-----------------------------------------------------------------------------
(* The three translators on one file: the functions add, validate and get, *)
(* declared in the class or impl block Calculator (as in                   *)
(* tests/fixtures/rust/with_impl.rs) or as free functions, with statements *)
(* in the body of add and at the top level of the file.  A source is the   *)
(* text of the file; parse_source is the tree the parser hands over for it *)

Languages == {"rust", "python", "javascript"}

MaxBody == 2

MaxTop == 1

(* self.method(arg) / this.method(arg) *)
SelfCall(method, arg) == [stmt |-> "self_call", name |-> method, arg |-> arg]

(* name(arg) *)
PlainCall(name, arg) == [stmt |-> "call", name |-> name, arg |-> arg]

(* app.<route method>("/p", arg): registration of a handler *)
RouteCall(arg) == [stmt |-> "route", name |-> "app", arg |-> arg]

SourceStmts ==
    { SelfCall("validate", "x"), SelfCall("get", "key"), PlainCall("helper", "x"),
      RouteCall("handler"), RouteCall("req") }

Sources ==
    { [lang |-> l, class |-> c, body |-> b, top |-> t] :
        l \in Languages, c \in {"", "Calculator"},
        b \in SeqsUpTo(SourceStmts, MaxBody), t \in SeqsUpTo(SourceStmts, MaxTop) }

(* the separator of a scoped name *)
Sep(lang) == IF lang = "rust" THEN "::" ELSE "."

(* the route registration method written in the sources of a language *)
RouteMethodOf(lang) ==
    IF lang = "rust" THEN "route" ELSE IF lang = "python" THEN "add_url_rule" ELSE "get"

Commas(args) ==
    [i \in 1..(2 * Len(args) - 1) |-> IF i % 2 = 1 THEN args[(i + 1) \div 2] ELSE Leaf(",", ",")]

(* the callee node of a statement *)
CalleeNode(lang, st) ==
    IF st.stmt = "call" THEN Leaf("identifier", st.name)
    ELSE LET member == IF st.stmt = "self_call" THEN st.name ELSE RouteMethodOf(lang) IN
         IF lang = "rust"
         THEN Tree("field_expression",
                   <<(IF st.stmt = "self_call" THEN Leaf("self", "self")
                      ELSE Leaf("identifier", st.name)),
                     Leaf(".", "."), Leaf("field_identifier", member)>>)
         ELSE IF lang = "python"
         THEN Tree("attribute",
                   <<Leaf("identifier", IF st.stmt = "self_call" THEN "self" ELSE st.name),
                     Leaf(".", "."), Leaf("identifier", member)>>)
         ELSE Tree("member_expression",
                   <<(IF st.stmt = "self_call" THEN Leaf("this", "this")
                      ELSE Leaf("identifier", st.name)),
                     Leaf(".", "."), Leaf("property_identifier", member)>>)

(* the argument nodes of a statement *)
ArgNodes(lang, st) ==
    (IF st.stmt = "route"
     THEN <<Leaf(IF lang = "rust" THEN "string_literal" ELSE "string", "\"/p\"")>>
     ELSE <<>>) \o <<Leaf("identifier", st.arg)>>

(* the expression statement of a statement *)
StmtNode(lang, st) ==
    LET args == <<Leaf("(", "(")>> \o Commas(ArgNodes(lang, st)) \o <<Leaf(")", ")")>> IN
    IF lang = "rust"
    THEN Tree("expression_statement",
              <<Tree("call_expression", <<CalleeNode(lang, st), Tree("arguments", args)>>),
                Leaf(";", ";")>>)
    ELSE IF lang = "python"
    THEN Tree("expression_statement",
              <<Tree("call", <<CalleeNode(lang, st), Tree("argument_list", args)>>)>>)
    ELSE Tree("expression_statement",
              <<Tree("call_expression", <<CalleeNode(lang, st), Tree("arguments", args)>>),
                Leaf(";", ";")>>)

StmtNodes(lang, stmts) == [i \in 1..Len(stmts) |-> StmtNode(lang, stmts[i])]

(* the declaration of a function or method *)
FunctionNode(lang, class, name, stmts) ==
    LET params == Tree(IF lang = "javascript" THEN "formal_parameters" ELSE "parameters",
                       <<Leaf("(", "("), Leaf(")", ")")>>)
        block == <<Leaf("{", "{")>> \o StmtNodes(lang, stmts) \o <<Leaf("}", "}")>> IN
    IF lang = "rust"
    THEN Tree("function_item",
              <<Leaf("fn", "fn"), Leaf("identifier", name), params, Tree("block", block)>>)
    ELSE IF lang = "python"
    THEN Tree("function_definition",
              <<Leaf("def", "def"), Leaf("identifier", name), params, Leaf(":", ":"),
                Tree("block", IF stmts = <<>> THEN <<Leaf("pass_statement", "pass")>>
                              ELSE StmtNodes(lang, stmts))>>)
    ELSE IF class = ""
    THEN Tree("function_declaration",
              <<Leaf("function", "function"), Leaf("identifier", name), params,
                Tree("statement_block", block)>>)
    ELSE Tree("method_definition",
              <<Leaf("property_identifier", name), params, Tree("statement_block", block)>>)

(* the tree of a source *)
parse_source(src) ==
    LET l == src.lang
        decls == << FunctionNode(l, src.class, "add", src.body),
                    FunctionNode(l, src.class, "validate", <<>>),
                    FunctionNode(l, src.class, "get", <<>>) >>
        items == IF src.class = "" THEN decls
                 ELSE IF l = "rust"
                 THEN <<Tree("impl_item",
                             <<Leaf("impl", "impl"), Leaf("type_identifier", src.class),
                               Tree("declaration_list",
                                    <<Leaf("{", "{")>> \o decls \o <<Leaf("}", "}")>>)>>)>>
                 ELSE IF l = "python"
                 THEN <<Tree("class_definition",
                             <<Leaf("class", "class"), Leaf("identifier", src.class),
                               Leaf(":", ":"), Tree("block", decls)>>)>>
                 ELSE <<Tree("class_declaration",
                             <<Leaf("class", "class"), Leaf("identifier", src.class),
                               Tree("class_body",
                                    <<Leaf("{", "{")>> \o decls \o <<Leaf("}", "}")>>)>>)>> IN
    Tree(IF l = "rust" THEN "source_file" ELSE IF l = "python" THEN "module" ELSE "program",
         items \o StmtNodes(l, src.top))

(* Translator::translate_file of the translator get_translator(language)   *)
(* returns, with the module given *)
translate_file(src, module) ==
    IF src.lang = "rust" THEN translate(parse_source(src), module)
    ELSE IF src.lang = "python" THEN py_translate(parse_source(src), module)
    ELSE js_translate(parse_source(src), module)

TranslateFile(src) ==
    /\ ~translated.is_some
    /\ translated' = [is_some |-> TRUE, value |-> translate_file(src, "app"), source |-> src]
    /\ last' = [op |-> "translate_file", ok |-> TRUE]
    /\ UNCHANGED <<asts, functions_map, built, graph, result>>

NextTranslators ==
    \/ \E src \in Sources : TranslateFile(src)
    \/ translated.is_some /\ asts = <<>> /\ AddAst(translated.value)
    \/ \E order \in IterationOrders(DOMAIN functions_map) : asts # <<>> /\ Build(order)

SpecTranslators == Init /\ [][NextTranslators]_vars

(* the functions of the translated ast with the given name *)
FunctionsNamed(name) ==
    {i \in 1..Len(translated.value.functions) : translated.value.functions[i].name = name}

(* the statements of a list that call the method through self / this *)
SelfCallsOf(stmts, method) ==
    {i \in 1..Len(stmts) : stmts[i].stmt = "self_call" /\ stmts[i].name = method}

(* C17: for a method add of the class or impl type S of module app whose   *)
(* body calls a method m of S through self / this, the translator emits    *)
(* one FunctionCall S<sep>m with target module app for each such call, and *)
(* the graph built from the ast has one edge for it, from the node of      *)
(* S<sep>add to the internal node of the declared S<sep>m, and no external *)
(* node of that name *)
C17_SelfCallResolved ==
    (translated.is_some /\ translated.source.class # "") =>
      LET src == translated.source
          caller_name == src.class \o Sep(src.lang) \o "add"
          caller_id == generate_id("app", caller_name, Signature_empty) IN
      /\ Cardinality(FunctionsNamed(caller_name)) = 1
      /\ \A m \in {"validate", "get"} :
           LET target == src.class \o Sep(src.lang) \o m
               target_id == generate_id("app", target, Signature_empty)
               n == Cardinality(SelfCallsOf(src.body, m))
               caller == translated.value.functions[CHOOSE i \in FunctionsNamed(caller_name) : TRUE]
               emitted == {i \in 1..Len(caller.calls) : caller.calls[i].target_name = target} IN
           /\ Cardinality(emitted) = n
           /\ \A i \in emitted : caller.calls[i].target_module = Some("app")
           /\ (last.op = "build" /\ asts = <<translated.value>>) =>
                /\ built.ok
                /\ Cardinality({i \in 1..Len(built.graph.edges) :
                                  built.graph.edges[i].from = caller_id
                                    /\ built.graph.edges[i].to = target_id}) = n
                /\ ~built.graph.nodes[target_id].is_external
                /\ \A id \in DOMAIN built.graph.nodes :
                     built.graph.nodes[id].is_external =>
                       built.graph.nodes[id].metadata.name # target

(* a JavaScript class whose method add calls this.get(key) and             *)
(* this.validate(x) was translated and its graph built *)
C17_Witness ==
    /\ translated.is_some
    /\ translated.source.lang = "javascript"
    /\ translated.source.class = "Calculator"
    /\ translated.source.body = <<SelfCall("get", "key"), SelfCall("validate", "x")>>
    /\ BuiltNow
    /\ asts = <<translated.value>>

(* the names a statement mentions: the callee, the receiver, the route     *)
(* method and the argument *)
MentionedNames(lang, st) ==
    {st.name, st.arg} \cup (IF st.stmt = "route" THEN {RouteMethodOf(lang)} ELSE {})

(* C18: the <module> function owns only call sites outside the declared    *)
(* functions: a file without top-level statement has no <module> function, *)
(* and <module> holds no more calls of a name than there are top-level     *)
(* statements that mention it *)
C18_ModuleOwnsTopLevelOnly ==
    translated.is_some =>
      LET src == translated.source IN
      /\ src.top = <<>> => FunctionsNamed("<module>") = {}
      /\ \A i \in FunctionsNamed("<module>") :
           LET calls == translated.value.functions[i].calls IN
           \A k \in 1..Len(calls) :
             Cardinality({j \in 1..Len(calls) : calls[j].target_name = calls[k].target_name})
               <= Cardinality({j \in 1..Len(src.top) :
                                 calls[k].target_name \in MentionedNames(src.lang, src.top[j])})

(* C19: in an ast of the JavaScript translator no FunctionCall of any      *)
(* function has the target name req, res, next or err *)
C19_NoExpressParams ==
    (translated.is_some /\ translated.source.lang = "javascript") =>
      \A i \in 1..Len(translated.value.functions) :
        \A k \in 1..Len(translated.value.functions[i].calls) :
          translated.value.functions[i].calls[k].target_name \notin ExpressParams

(* C20: a node, once inserted, stays in the graph with the same record,    *)
(* is_external flag and metadata included, through every insert_node and   *)
(* insert_edge; insert_node for an id already present fails and leaves the *)
(* graph as it was *)
C20_NodeImmutable ==
    [][ /\ \A id \in DOMAIN graph.nodes :
             /\ id \in DOMAIN graph'.nodes
             /\ graph'.nodes[id] = graph.nodes[id]
        /\ \A node \in NodePool :
             node.id \in DOMAIN graph.nodes =>
               /\ ~insert_node(graph, node).ok
               /\ insert_node(graph, node).graph = graph
        /\ (last'.op = "insert_node" /\ ~last'.ok) => graph' = graph
      ]_vars

(* insert_node was last called for an id already present, on a graph that  *)
(* holds an external and an internal node *)
C20_Witness ==
    /\ last = [op |-> "insert_node", ok |-> FALSE]
    /\ \E id \in NodeIds : id \in DOMAIN graph.nodes /\ graph.nodes[id].is_external
    /\ \E id \in NodeIds : id \in DOMAIN graph.nodes /\ ~graph.nodes[id].is_external

------------------------------------------------------------------------------
(* A graph returned by build(), kept by the caller while the builder and   *)
(* the graph are used further: built holds the first Ok(graph) returned,   *)
(* graph the graph of the latest later build *)

InitIssued ==
    /\ translated = None
    /\ \E b \in EntryBuilders :
         /\ asts = b.asts /\ functions_map = b.functions_map
         /\ Len(asts) = 1
         /\ Len(asts[1].functions) = MaxFuncs /\ TotalCalls(asts[1].functions) = MaxCalls
    /\ last = [op |-> "add_ast", ok |-> asts # <<>>]
    /\ built = [ok |-> FALSE, err |-> "not built"]
    /\ graph = CallGraph_new
    /\ result = [op |-> "none"]

(* build() called again while the caller holds an earlier graph *)
BuildAgain(order) ==
    /\ built.ok
    /\ LET r == build(functions_map, order) IN
        /\ graph' = IF r.ok THEN r.graph ELSE graph
        /\ last' = [op |-> "build", ok |-> r.ok]
    /\ UNCHANGED <<translated, asts, functions_map, built, result>>

NextIssued ==
    \/ \E order \in IterationOrders(DOMAIN functions_map) : ~built.ok /\ Build(order)
    \/ \E ast \in AstPool : built.ok /\ AddAst(ast)
    \/ \E order \in IterationOrders(DOMAIN functions_map) : BuildAgain(order)
    \/ built.ok /\ \E start \in DOMAIN built.graph.nodes : DfsTraversal(built.graph, start)
    \/ built.ok /\ \E start \in DOMAIN built.graph.nodes : BfsTraversal(built.graph, start)
    \/ built.ok /\ \E id \in DOMAIN built.graph.nodes : ReachableFrom(built.graph, id)
    \/ built.ok /\ \E id \in DOMAIN built.graph.nodes : DirectCallees(built.graph, id)
    \/ built.ok /\ \E keys \in IterationOrders(DOMAIN built.graph.nodes) :
         FindCycles(built.graph, keys)
    \/ built.ok /\ \E keys \in IterationOrders(DOMAIN built.graph.nodes) :
         HasCycles(built.graph, keys)

SpecIssued == InitIssued /\ [][NextIssued]_vars

C22_DirectCalleesDistinct ==
    result.op = "direct_callees" =>
      LET targets == {e.to : e \in {x \in EdgeSet(graph) : x.from = result.start}} IN
      /\ Len(result.callees) = Cardinality(targets)
      /\ {result.callees[i] : i \in 1..Len(result.callees)} = targets
      /\ \A i, j \in 1..Len(result.callees) :
           i # j => result.callees[i] # result.callees[j]

(* direct_callees was called on a node with three edges to two targets *)
C22_Witness ==
    /\ result.op = "direct_callees"
    /\ Len(get_edges_from(graph, result.start)) = 3
    /\ Len(result.callees) = 2

------------------------------------------------------------------------------
(* A TraversalResult under add_node and merge: result holds the receiver   *)

(* the results add_node calls produce from TraversalResult::new() *)
MergeResults ==
    { merge(TraversalResult_new, o) : o \in UNION {IterationOrders(S) : S \in SUBSET {n.id : n \in CycleNodes}} }

InitMerge ==
    /\ translated = None
    /\ asts = CallGraphBuilder_new.asts
    /\ functions_map = CallGraphBuilder_new.functions_map
    /\ last = [op |-> "new", ok |-> TRUE]
    /\ built = [ok |-> FALSE, err |-> "not built"]
    /\ graph = CallGraph_new
    /\ result = [op |-> "new", reachable |-> TraversalResult_new.reachable,
                 visited_order |-> TraversalResult_new.visited_order]

AddNode(id) ==
    /\ LET r == add_node([reachable |-> result.reachable,
                          visited_order |-> result.visited_order], id) IN
        result' = [op |-> "add_node", id |-> id,
                   reachable |-> r.reachable, visited_order |-> r.visited_order]
    /\ UNCHANGED <<translated, asts, functions_map, last, built, graph>>

Merge(other) ==
    /\ LET r == merge([reachable |-> result.reachable,
                       visited_order |-> result.visited_order], other.visited_order) IN
        result' = [op |-> "merge", other |-> other,
                   reachable |-> r.reachable, visited_order |-> r.visited_order]
    /\ UNCHANGED <<translated, asts, functions_map, last, built, graph>>

NextMerge ==
    \/ \E n \in CycleNodes : AddNode(n.id)
    \/ \E other \in MergeResults : Merge(other)

SpecMerge == InitMerge /\ [][NextMerge]_vars

(* the list holds each id of the set once and nothing else *)
OrderMatchesSet(r) ==
    /\ {r.visited_order[i] : i \in 1..Len(r.visited_order)} = r.reachable
    /\ \A i, j \in 1..Len(r.visited_order) : i # j => r.visited_order[i] # r.visited_order[j]

(* C23: merge(other) appends to the receiver's visited_order exactly the   *)
(* ids of other the receiver does not hold, in other's order, and keeps    *)
(* the receiver's entries; merging a copy of the receiver changes neither  *)
(* the set nor the list; after any add_node and merge calls visited_order  *)
(* has no duplicates and holds the ids of reachable *)
C23_MergeAppendsNew ==
    [][ /\ OrderMatchesSet(result) /\ OrderMatchesSet(result')
        /\ result'.op = "merge" =>
             LET other == result'.other IN
             /\ result'.visited_order =
                  result.visited_order
                    \o SelectSeq(other.visited_order, LAMBDA id : id \notin result.reachable)
             /\ result'.reachable = result.reachable \cup other.reachable
             /\ (other.reachable = result.reachable
                   /\ other.visited_order = result.visited_order) =>
                  /\ result'.reachable = result.reachable
                  /\ result'.visited_order = result.visited_order
      ]_vars

(* a receiver of two ids was merged with a result that holds one of them   *)
(* and a new one, first the known id *)
C23_Witness ==
    /\ result.op = "merge"
    /\ Len(result.visited_order) = 3
    /\ Len(result.other.visited_order) = 2
    /\ result.other.visited_order[1] \in {result.visited_order[1], result.visited_order[2]}
    /\ result.other.visited_order[2] = result.visited_order[3]

------------------------------------------------------------------------------
(* resolver/rust.rs *)

RECURSIVE split(_, _)
(* str::split(sep) collected into a Vec *)
split(s, sep) ==
    LET at == {i \in 1..(Len(s) - Len(sep) + 1) : SubSeq(s, i, i + Len(sep) - 1) = sep} IN
    IF at = {} THEN <<s>>
    ELSE LET i == CHOOSE k \in at : \A j \in at : k <= j IN
         <<SubSeq(s, 1, i - 1)>> \o split(SubSeq(s, i + Len(sep), Len(s)), sep)

RECURSIVE join(_, _)
(* [&str]::join(sep) *)
join(parts, sep) ==
    IF parts = <<>> THEN ""
    ELSE IF Len(parts) = 1 THEN parts[1]
    ELSE parts[1] \o sep \o join(Tail(parts), sep)

(* one `for func in all_functions` loop: the first function of the name in *)
(* the module *)
find_in_module(call_name, module, all_functions) ==
    LET hits == {k \in 1..Len(all_functions) :
                   all_functions[k].name = call_name /\ all_functions[k].module = module} IN
    IF hits = {} THEN None
    ELSE LET k == CHOOSE x \in hits : \A y \in hits : x <= y IN
         Some(<<all_functions[k].module, all_functions[k].name>>)

RECURSIVE resolve_in_parents(_, _, _, _)
(* for i in (1..parts.len()).rev() *)
resolve_in_parents(call_name, parts, i, all_functions) ==
    IF i < 1 THEN None
    ELSE LET r == find_in_module(call_name, join(SubSeq(parts, 1, i), "::"), all_functions) IN
         IF r.is_some THEN r
         ELSE resolve_in_parents(call_name, parts, i - 1, all_functions)

(* resolve_call that takes the first function of the name in the list that *)
(* sits in the current module, a parent or the root *)
resolve_call_first_in_list(call_name, current_module, all_functions) ==
    LET hits == {k \in 1..Len(all_functions) :
                   /\ all_functions[k].name = call_name
                   /\ \/ all_functions[k].module = current_module
                      \/ all_functions[k].module = ""
                      \/ starts_with(current_module, all_functions[k].module \o "::")} IN
    IF hits = {} THEN None
    ELSE LET k == CHOOSE x \in hits : \A y \in hits : x <= y IN
         Some(<<all_functions[k].module, all_functions[k].name>>)

resolve_call(call_name, current_module, all_functions) ==
    LET cur == find_in_module(call_name, current_module, all_functions) IN
    IF cur.is_some THEN cur
    ELSE LET parts == split(current_module, "::")
             par == resolve_in_parents(call_name, parts, Len(parts) - 1, all_functions) IN
         IF par.is_some THEN par
         ELSE find_in_module(call_name, "", all_functions)

------------------------------------------------------------------------------
(* resolve_call on lists of functions of nested modules *)

MaxResolveFuncs == 3

ResolveModules == {"", "root", "root::utils", "root::utils::deep", "root::other", "rootx"}

ResolveNames == {"helper", "main"}

ResolveFuncs ==
    SeqsUpTo({FunctionDef_new(n, Signature_empty, m) : n \in ResolveNames, m \in ResolveModules},
             MaxResolveFuncs)

InitResolve ==
    /\ translated = None
    /\ asts = CallGraphBuilder_new.asts
    /\ functions_map = CallGraphBuilder_new.functions_map
    /\ last = [op |-> "new", ok |-> TRUE]
    /\ built = [ok |-> FALSE, err |-> "not built"]
    /\ graph = CallGraph_new
    /\ \E fs \in ResolveFuncs : \E m \in ResolveModules :
         result = [op |-> "input", current_module |-> m, all_functions |-> fs]

ResolveCall(call_name) ==
    /\ result.op = "input"
    /\ result' = [op |-> "resolve_call", call_name |-> call_name,
                  current_module |-> result.current_module,
                  all_functions |-> result.all_functions,
                  r |-> resolve_call(call_name, result.current_module, result.all_functions)]
    /\ UNCHANGED <<translated, asts, functions_map, last, built, graph>>

NextResolve == \E call_name \in ResolveNames : ResolveCall(call_name)

SpecResolve == InitResolve /\ [][NextResolve]_vars

(* m is current or a proper prefix of current that ends before a `::`, or  *)
(* the empty module path *)
Encloses(m, current) == m = current \/ m = "" \/ starts_with(current, m \o "::")

(* C24: resolve_call returns the (module, name) of a function of the name  *)
(* declared in the nearest enclosing module: the current module, else its  *)
(* longest proper `::` prefix that declares one, else the empty module     *)
(* path, else nothing; never a sibling or child module, whatever the       *)
(* positions in the list *)
C24_NearestEnclosing ==
    result.op = "resolve_call" =>
      LET declaring == {result.all_functions[k].module :
                          k \in {j \in 1..Len(result.all_functions) :
                                   result.all_functions[j].name = result.call_name}}
          enclosing == {m \in declaring : Encloses(m, result.current_module)} IN
      IF enclosing = {} THEN ~result.r.is_some
      ELSE /\ result.r.is_some
           /\ result.r.value[2] = result.call_name
           /\ result.r.value[1] \in enclosing
           /\ \A m \in enclosing : Len(m) <= Len(result.r.value[1])

(* helper is declared in the root, in root, in a sibling and in a child,   *)
(* listed before the parent, and is called from root::utils *)
C24_Witness ==
    /\ result.op = "resolve_call"
    /\ result.call_name = "helper"
    /\ result.current_module = "root::utils"
    /\ Len(result.all_functions) = 3
    /\ result.all_functions[1].module = "root::other"
    /\ result.all_functions[2].module = ""
    /\ result.all_functions[3].module = "root"
    /\ \A k \in 1..3 : result.all_functions[k].name = "helper"
    /\ result.r = Some(<<"root", "helper">>)

(* C25: in each translator, a call in the body of add whose callee is a   *)
(* member access ending in a route-registration method records its         *)
(* identifier argument as a FunctionCall of add *)
C25_RouteHandlersRecorded ==
    translated.is_some =>
      LET src == translated.source
          caller_name == IF src.class = "" THEN "add"
                         ELSE src.class \o Sep(src.lang) \o "add" IN
      \A i \in FunctionsNamed(caller_name) :
        \A k \in 1..Len(src.body) :
          src.body[k].stmt = "route" =>
            \E c \in 1..Len(translated.value.functions[i].calls) :
              translated.value.functions[i].calls[c].target_name = src.body[k].arg

(* C26: every FunctionCall a translator emits carries the 1-based line of *)
(* its call site, and every edge of the graph built from the ast has       *)
(* line >= 1 *)
C26_CallLinesOneBased ==
    translated.is_some =>
      /\ \A i \in 1..Len(translated.value.functions) :
           \A k \in 1..Len(translated.value.functions[i].calls) :
             translated.value.functions[i].calls[k].line >= 1
      /\ (BuiltNow /\ asts = <<translated.value>>) =>
           \A e \in 1..Len(built.graph.edges) : built.graph.edges[e].line >= 1

------------------------------------------------------------------------------
(* Reference searches for the visit order *)

RECURSIVE PreorderVisit(_, _, _)
RECURSIVE PreorderEdges(_, _, _)
(* recursive depth-first search: order is the list of the ids visited so   *)
(* far; an id is visited when first met, then its edges are explored       *)
PreorderVisit(g, id, order) ==
    IF \E i \in 1..Len(order) : order[i] = id THEN order
    ELSE PreorderEdges(g, get_edges_from(g, id), Append(order, id))

(* the edges of a node, last-inserted first *)
PreorderEdges(g, es, order) ==
    IF es = <<>> THEN order
    ELSE PreorderEdges(g, SubSeq(es, 1, Len(es) - 1), PreorderVisit(g, es[Len(es)].to, order))

RECURSIVE LevelOrder(_, _, _)
(* breadth-first search that marks an id when it is enqueued: queue holds  *)
(* the positions of order still to expand *)
LevelOrder(g, order, at) ==
    IF at > Len(order) THEN order
    ELSE LET es == get_edges_from(g, order[at])
             step[k \in 0..Len(es)] ==
                 IF k = 0 THEN order
                 ELSE IF \E i \in 1..Len(step[k - 1]) : step[k - 1][i] = es[k].to
                      THEN step[k - 1]
                      ELSE Append(step[k - 1], es[k].to) IN
         LevelOrder(g, step[Len(es)], at + 1)

(* C27: visited_order of dfs_traversal is the preorder of a recursive      *)
(* depth-first search that explores the outgoing edges of a node           *)
(* last-inserted first; visited_order of bfs_traversal is the level order  *)
(* of a breadth-first search that explores them first-inserted first; each *)
(* id appears once and the start id is first *)
C27_VisitOrder ==
    /\ result.op = "dfs_traversal" =>
         result.visited_order = PreorderVisit(graph, result.start, <<>>)
    /\ result.op = "bfs_traversal" =>
         result.visited_order = LevelOrder(graph, <<result.start>>, 1)
    /\ result.op \in {"dfs_traversal", "bfs_traversal"} =>
         /\ result.visited_order[1] = result.start
         /\ \A i, j \in 1..Len(result.visited_order) :
              i # j => result.visited_order[i] # result.visited_order[j]

(* dfs_traversal from a node with edges to two other nodes visited the     *)
(* target of the later edge first *)
C27_Witness ==
    /\ result.op = "dfs_traversal"
    /\ Len(result.visited_order) = 3
    /\ LET es == get_edges_from(graph, result.start) IN
       /\ Len(es) = 2
       /\ es[1].to # es[2].to
       /\ result.visited_order[2] = es[2].to
       /\ result.visited_order[3] = es[1].to

------------------------------------------------------------------------------
(* dfs_traversal and bfs_traversal iteration by iteration: result holds    *)
(* the locals of the running call *)

InitLoop == InitTraversal

TraversalStart(op, start) ==
    /\ result.op = "none"
    /\ result' = [op |-> op, pc |-> "loop", start |-> start, st |-> loop_state(start)]
    /\ UNCHANGED <<translated, asts, functions_map, last, built, graph>>

TraversalStep ==
    /\ result.op \in {"dfs_traversal", "bfs_traversal"}
    /\ result.pc = "loop"
    /\ result.st.work # <<>>
    /\ result' = [result EXCEPT !.st = IF result.op = "dfs_traversal"
                                       THEN dfs_step(graph, result.st)
                                       ELSE bfs_step(graph, result.st)]
    /\ UNCHANGED <<translated, asts, functions_map, last, built, graph>>

TraversalReturn ==
    /\ result.op \in {"dfs_traversal", "bfs_traversal"}
    /\ result.pc = "loop"
    /\ result.st.work = <<>>
    /\ result' = [result EXCEPT !.pc = "done"]
    /\ UNCHANGED <<translated, asts, functions_map, last, built, graph>>

NextLoop ==
    \/ \E start \in StartIds : TraversalStart("dfs_traversal", start)
    \/ \E start \in StartIds : TraversalStart("bfs_traversal", start)
    \/ TraversalStep
    \/ TraversalReturn

SpecLoop == InitLoop /\ [][NextLoop]_vars

(* the call runs on its own thread of control: an iteration that can be    *)
(* taken is taken *)
SpecLoopFair == SpecLoop /\ WF_vars(TraversalStep) /\ WF_vars(TraversalReturn)

(* C28: a started dfs_traversal or bfs_traversal returns, on every graph,  *)
(* with cycles, self loops and parallel edges: the work stack or queue     *)
(* empties, and each node is in the result at most once; the returned      *)
(* result is the one of the call *)
C28_TraversalTerminates ==
    /\ (result.op # "none") ~> (result.op # "none" /\ result.pc = "done")
    /\ [](result.op # "none" =>
            /\ \A i, j \in 1..Len(result.st.res.visited_order) :
                 i # j => result.st.res.visited_order[i] # result.st.res.visited_order[j]
            /\ result.pc = "done" =>
                 /\ result.st.work = <<>>
                 /\ result.st.res = IF result.op = "dfs_traversal"
                                    THEN dfs_traversal(graph, result.start)
                                    ELSE bfs_traversal(graph, result.start))

(* dfs_traversal returned on a graph with a self loop and two parallel     *)
(* edges that close a cycle *)
C28_Witness ==
    /\ result.op = "dfs_traversal"
    /\ result.pc = "done"
    /\ Len(graph.edges) = 3
    /\ \E i \in 1..3 : graph.edges[i].from = graph.edges[i].to
    /\ \E i, j \in 1..3 : i # j /\ graph.edges[i] = graph.edges[j]
                            /\ graph.edges[i].from = result.start
                            /\ graph.edges[i].to # result.start
    /\ Len(result.st.res.visited_order) = 2

(* C29: every Cycle find_cycles returns is a simple cycle of the graph:    *)
(* its node list is not empty, holds no node twice, has an edge from each  *)
(* node to the next and one from the last node to the first (a self loop   *)
(* for a one-node cycle) *)
C29_FindCyclesSound ==
    result.op = "find_cycles" =>
      \A c \in 1..Len(result.cycles) :
        LET nodes == result.cycles[c].nodes IN
        /\ nodes # <<>>
        /\ \A i, j \in 1..Len(nodes) : i # j => nodes[i] # nodes[j]
        /\ \A i \in 1..Len(nodes) : nodes[i] \in DOMAIN graph.nodes
        /\ \A i \in 1..(Len(nodes) - 1) : HasEdge(graph, nodes[i], nodes[i + 1])
        /\ HasEdge(graph, nodes[Len(nodes)], nodes[1])

(* find_cycles returned a one-node cycle and a two-node cycle of a graph   *)
(* that also has an edge on no cycle *)
C29_Witness ==
    /\ result.op = "find_cycles"
    /\ \E c \in 1..Len(result.cycles) : Len(result.cycles[c].nodes) = 1
    /\ \E c \in 1..Len(result.cycles) : Len(result.cycles[c].nodes) = 2
    /\ \E e \in EdgeSet(graph) :
         \A c \in 1..Len(result.cycles) :
           \A i \in 1..Len(result.cycles[c].nodes) : result.cycles[c].nodes[i] # e.to

(* C30: every id in the reachable set and in visited_order returned by    *)
(* dfs_traversal, bfs_traversal or traversal_from_entries is a node of the *)
(* traversed graph, whatever start or entry ids are passed, ids that are   *)
(* not nodes included *)
C30_ResultWithinGraph ==
    /\ result.op \in {"dfs_traversal", "bfs_traversal", "traversal_from_entries"} =>
         /\ result.reachable \subseteq DOMAIN graph.nodes
         /\ \A i \in 1..Len(result.visited_order) :
              result.visited_order[i] \in DOMAIN graph.nodes
    /\ (result.op = "reachable_from" /\ result.ok) =>
         result.reachable \subseteq DOMAIN graph.nodes

====
